---- MODULE Spec2Model ----
(***************************************************************************)
(* State-machine model of the WooCommerce product synchronisation core:    *)
(* the product upsert engine (app/services/product_sync.py), the inbound   *)
(* webhook gate (app/routers/webhooks.py, app/utils/webhook_verification), *)
(* the reconciliation endpoint (app/routers/sync.py) and the scheduled     *)
(* sweep (app/services/scheduler.py).                                      *)
(*                                                                         *)
(* Encoding conventions                                                    *)
(*   - a nullable column or an optional value is a sequence of length at   *)
(*     most one: None is << >>, a present value x is << x >>;              *)
(*   - a remote product payload (a JSON object) is a record; a key that    *)
(*     the payload does not carry is a field the record does not have;     *)
(*   - the products table is the sequence of its rows in insertion order;  *)
(*     the surrogate key "id" and the column created_at, which no code     *)
(*     under study reads or writes after the insert, are left out.         *)
(***************************************************************************)
EXTENDS Integers, Sequences, FiniteSets, TLC

(***************************************************************************)
(* Bounds of the model.                                                    *)
(***************************************************************************)
\* Number of connected stores (tenants).
NumStores == 2
\* Remote product ids range over 1..NumProducts.
NumProducts == 2
\* The logical clock runs over 0..MaxTime.
MaxTime == 3

\* Page-size ceiling of the remote API.  The client clamps per_page to 100; the
\* model scales the ceiling down so that a catalog of NumProducts spans pages.
MaxPerPage == 1
\* Number of register_webhooks invocations a behaviour may hold.
MaxRegs == 2

Stores == 1..NumStores
ProductIds == 1..NumProducts
Times == 0..MaxTime
Regs == 1..MaxRegs

None == << >>
Some(x) == << x >>

\* dict.get(key): the value under key, or None when the key is absent.
Get(d, k) == IF k \in DOMAIN d THEN Some(d[k]) ELSE None

(***************************************************************************)
(* Remote product payloads.  Two versions of every product; they differ in *)
(* every field the upsert engine canonicalises.  Version 2 carries no      *)
(* "categories" key, a "Z"-suffixed creation date and a modification date  *)
(* that is not ISO 8601.                                                   *)
(***************************************************************************)
PayloadV1(p) ==
    [id |-> p, name |-> "Mug", slug |-> "mug", sku |-> "SKU-1",
     type |-> "simple", status |-> "publish",
     price |-> "10", regular_price |-> "12", sale_price |-> "10",
     categories |-> << "kitchen" >>, tags |-> << "sale" >>,
     date_created |-> "2024-01-15T10:30:00",
     date_modified |-> "2024-01-15T10:30:00"]

PayloadV2(p) ==
    [id |-> p, name |-> "Mug XL", slug |-> "mug-xl", sku |-> "SKU-2",
     type |-> "variable", status |-> "draft",
     price |-> "15", regular_price |-> "15", sale_price |-> "",
     tags |-> << >>,
     date_created |-> "2024-02-01T00:00:00Z",
     date_modified |-> "yesterday"]

Payloads == { PayloadV1(p) : p \in ProductIds } \cup { PayloadV2(p) : p \in ProductIds }

(***************************************************************************)
(* State.                                                                  *)
(***************************************************************************)
VARIABLES
    stores,     \* woocommerce_stores: store id -> row
    webhooks,   \* webhooks table: sequence of rows
    products,   \* products table: sequence of rows
    clock,      \* func.now() / datetime.now(timezone.utc)
    last,       \* the most recent call of the upsert engine and what it returned
    remote,     \* the remote catalog of every store: a set of payloads, one per id
    recon,      \* the reconcile_products invocation of every store
    bulk,       \* the fetch_all_products_from_woocommerce invocation of every store
    job,        \* the scheduler's reconciliation_job
    inbox,      \* inbound webhook requests not yet handled
    hook,       \* the inbound webhook request handled last and its response
    verify,     \* a call of verify_woocommerce_webhook: arguments and result
    wc_webhooks,\* the webhook subscriptions every shop holds, and how many it issued
    reg,        \* the register_webhooks invocations
    call        \* the webhook-manager or connection call made last and its answer

vars == << stores, webhooks, products, clock, last, remote, recon, bulk, job,
           inbox, hook, verify, wc_webhooks, reg, call >>

\* What the actions of each component leave unchanged.
frame_subs   == << wc_webhooks, reg, call >>
frame_engine == << stores, webhooks, remote, recon, bulk, job, inbox, hook, verify, frame_subs >>
frame_recon  == << stores, webhooks, clock, last, remote, bulk, job, inbox, hook, verify,
                   frame_subs >>
frame_bulk   == << webhooks, clock, last, remote, recon, job, inbox, hook, verify, frame_subs >>
frame_job    == << stores, webhooks, products, clock, last, remote, recon, inbox, hook, verify,
                   frame_subs >>
frame_hook   == << stores, webhooks, clock, last, remote, bulk, job, verify, frame_subs >>
frame_verify == << stores, webhooks, products, clock, last, remote, recon, bulk, job,
                   inbox, hook, frame_subs >>

(***************************************************************************)
(* Store rows.  merchant_id and store_url are unique per store.            *)
(***************************************************************************)
WooCommerceStore(s) ==
    [id |-> s, merchant_id |-> << "merchant", s >>, store_url |-> << "https://store", s >>,
     is_active |-> 1, is_verified |-> 1, last_synced_at |-> None]

(***************************************************************************)
(* parse_datetime: None for a missing or empty string; otherwise the       *)
(* string with "Z" replaced by "+00:00" is handed to fromisoformat, and a  *)
(* ValueError gives None.                                                  *)
(***************************************************************************)
replace_Z(s) ==
    CASE s = "2024-02-01T00:00:00Z" -> "2024-02-01T00:00:00+00:00"
      [] OTHER -> s

IsoFormat == { "2024-01-15T10:30:00", "2024-02-01T00:00:00+00:00" }

fromisoformat(s) ==
    CASE s = "2024-01-15T10:30:00" ->
            [year |-> 2024, month |-> 1, day |-> 15, hour |-> 10, minute |-> 30, tz |-> None]
      [] s = "2024-02-01T00:00:00+00:00" ->
            [year |-> 2024, month |-> 2, day |-> 1, hour |-> 0, minute |-> 0, tz |-> Some(0)]

parse_datetime(date_string) ==
    IF date_string = None \/ date_string = Some("")
    THEN None
    ELSE LET s == replace_Z(date_string[1])
         IN  IF s \in IsoFormat THEN Some(fromisoformat(s)) ELSE None

(***************************************************************************)
(* parse_woocommerce_product: the payload canonicalised into the columns   *)
(* of the products table, the payload itself kept verbatim in raw_data.    *)
(***************************************************************************)
parse_woocommerce_product(product_data) ==
    [wc_product_id  |-> Get(product_data, "id"),
     name           |-> Get(product_data, "name"),
     slug           |-> Get(product_data, "slug"),
     sku            |-> Get(product_data, "sku"),
     type           |-> Get(product_data, "type"),
     status         |-> Get(product_data, "status"),
     price          |-> Get(product_data, "price"),
     regular_price  |-> Get(product_data, "regular_price"),
     sale_price     |-> Get(product_data, "sale_price"),
     categories     |-> IF "categories" \in DOMAIN product_data
                        THEN product_data.categories ELSE << >>,
     tags           |-> IF "tags" \in DOMAIN product_data
                        THEN product_data.tags ELSE << >>,
     wc_created_at  |-> parse_datetime(Get(product_data, "date_created")),
     wc_modified_at |-> parse_datetime(Get(product_data, "date_modified")),
     raw_data       |-> product_data]

(***************************************************************************)
(* Embeddings.  The text summary keeps the parts the payloads carry; the   *)
(* provider is an opaque function of the text that may fail.               *)
(***************************************************************************)
ENABLE_EMBEDDINGS == TRUE

prepare_product_text(product) ==
    [name       |-> Get(product, "name"),
     categories |-> IF "categories" \in DOMAIN product THEN product.categories ELSE << >>,
     tags       |-> IF "tags" \in DOMAIN product THEN product.tags ELSE << >>,
     sku        |-> Get(product, "sku")]

\* The value left in parsed_data['embedding'], or None when the key is not set:
\* embeddings not requested or disabled, or the provider raised (provider_ok false).
generate_embedding(product_data, requested, provider_ok) ==
    IF requested /\ ENABLE_EMBEDDINGS /\ provider_ok
    THEN Some([vector_of |-> prepare_product_text(product_data)])
    ELSE None

(***************************************************************************)
(* upsert_product: INSERT ... ON CONFLICT (wc_product_id) DO UPDATE.       *)
(***************************************************************************)
\* The row an insert without conflict creates: column defaults fill what the
\* statement does not give (is_deleted 0, deleted_at NULL, synced_at now()).
insert_values(parsed_data, store, embedding, now) ==
    [wc_product_id  |-> parsed_data.wc_product_id[1],
     store_id       |-> store.id,
     merchant_id    |-> store.merchant_id,
     name           |-> parsed_data.name,
     slug           |-> parsed_data.slug,
     sku            |-> parsed_data.sku,
     type           |-> parsed_data.type,
     status         |-> parsed_data.status,
     price          |-> parsed_data.price,
     regular_price  |-> parsed_data.regular_price,
     sale_price     |-> parsed_data.sale_price,
     categories     |-> parsed_data.categories,
     tags           |-> parsed_data.tags,
     wc_created_at  |-> parsed_data.wc_created_at,
     wc_modified_at |-> parsed_data.wc_modified_at,
     raw_data       |-> parsed_data.raw_data,
     embedding      |-> embedding,
     is_deleted     |-> 0,
     deleted_at     |-> None,
     synced_at      |-> Some(now),
     updated_at     |-> None]

\* Variant of update_set that leaves the delete flag and timestamp as they are.
update_set_keeps_delete_flag(parsed_data, embedding, now) ==
    [name           |-> parsed_data.name,
     slug           |-> parsed_data.slug,
     sku            |-> parsed_data.sku,
     type           |-> parsed_data.type,
     status         |-> parsed_data.status,
     price          |-> parsed_data.price,
     regular_price  |-> parsed_data.regular_price,
     sale_price     |-> parsed_data.sale_price,
     categories     |-> parsed_data.categories,
     tags           |-> parsed_data.tags,
     wc_modified_at |-> parsed_data.wc_modified_at,
     raw_data       |-> parsed_data.raw_data,
     synced_at      |-> Some(now),
     updated_at     |-> Some(now)]

\* Variant of update_set that does not overwrite the price tiers.
update_set_without_prices(parsed_data, embedding, now) ==
    [name           |-> parsed_data.name,
     slug           |-> parsed_data.slug,
     sku            |-> parsed_data.sku,
     type           |-> parsed_data.type,
     status         |-> parsed_data.status,
     categories     |-> parsed_data.categories,
     tags           |-> parsed_data.tags,
     wc_modified_at |-> parsed_data.wc_modified_at,
     raw_data       |-> parsed_data.raw_data,
     is_deleted     |-> 0,
     deleted_at     |-> None,
     synced_at      |-> Some(now),
     updated_at     |-> Some(now)]

\* Variant of update_set that always overwrites the embedding, with NULL when
\* none was computed.
update_set_overwriting_embedding(parsed_data, embedding, now) ==
    [name           |-> parsed_data.name,
     slug           |-> parsed_data.slug,
     sku            |-> parsed_data.sku,
     type           |-> parsed_data.type,
     status         |-> parsed_data.status,
     price          |-> parsed_data.price,
     regular_price  |-> parsed_data.regular_price,
     sale_price     |-> parsed_data.sale_price,
     categories     |-> parsed_data.categories,
     tags           |-> parsed_data.tags,
     wc_modified_at |-> parsed_data.wc_modified_at,
     raw_data       |-> parsed_data.raw_data,
     embedding      |-> embedding,
     is_deleted     |-> 0,
     deleted_at     |-> None,
     synced_at      |-> Some(now),
     updated_at     |-> Some(now)]

\* The columns the conflict branch overwrites.
update_set(parsed_data, embedding, now) ==
    LET base == [name           |-> parsed_data.name,
                 slug           |-> parsed_data.slug,
                 sku            |-> parsed_data.sku,
                 type           |-> parsed_data.type,
                 status         |-> parsed_data.status,
                 price          |-> parsed_data.price,
                 regular_price  |-> parsed_data.regular_price,
                 sale_price     |-> parsed_data.sale_price,
                 categories     |-> parsed_data.categories,
                 tags           |-> parsed_data.tags,
                 wc_modified_at |-> parsed_data.wc_modified_at,
                 raw_data       |-> parsed_data.raw_data,
                 is_deleted     |-> 0,
                 deleted_at     |-> None,
                 synced_at      |-> Some(now),
                 updated_at     |-> Some(now)]
    IN  IF embedding # None
        THEN [k \in DOMAIN base \cup {"embedding"} |->
                 IF k = "embedding" THEN embedding ELSE base[k]]
        ELSE base

\* A row with the columns of set_ overwritten.
apply_update(row, set_) ==
    [k \in DOMAIN row |-> IF k \in DOMAIN set_ THEN set_[k] ELSE row[k]]

\* Indexes of the rows that hold remote id p (the unique index on wc_product_id).
rows_with_id(rows, p) == { i \in DOMAIN rows : rows[i].wc_product_id = p }

\* Variant of the upsert statement without the conflict clause: a plain insert
\* into a table that has no unique index on wc_product_id.
insert_without_conflict_clause(rows, values, set_) == Append(rows, values)

\* Variant of on_conflict_do_update in which the conflicting row is replaced by
\* the values of the insert, tenant columns included.
on_conflict_do_replace(rows, values, set_) ==
    IF rows_with_id(rows, values.wc_product_id) # {}
    THEN [i \in DOMAIN rows |->
             IF rows[i].wc_product_id = values.wc_product_id THEN values ELSE rows[i]]
    ELSE Append(rows, values)

on_conflict_do_update(rows, values, set_) ==
    IF rows_with_id(rows, values.wc_product_id) # {}
    THEN [i \in DOMAIN rows |->
             IF rows[i].wc_product_id = values.wc_product_id
             THEN apply_update(rows[i], set_) ELSE rows[i]]
    ELSE Append(rows, values)

\* The products table after upsert_product(db, store, product_data) committed.
upsert_product(rows, store, product_data, embedding, now) ==
    LET parsed_data == parse_woocommerce_product(product_data)
    IN  on_conflict_do_update(rows,
                              insert_values(parsed_data, store, embedding, now),
                              update_set(parsed_data, embedding, now))

(***************************************************************************)
(* soft_delete_product and restore_product: the row is looked up by remote *)
(* id and merchant; the ORM update also fires the onupdate columns.        *)
(***************************************************************************)
\* Variant of query_first that looks the row up by remote id alone.
query_first_any_merchant(rows, wc_product_id, merchant_id) ==
    { i \in DOMAIN rows : rows[i].wc_product_id = wc_product_id }

query_first(rows, wc_product_id, merchant_id) ==
    { i \in DOMAIN rows : /\ rows[i].wc_product_id = wc_product_id
                          /\ rows[i].merchant_id = merchant_id }

\* Variant of soft_delete_row that also drops the embedding.
soft_delete_row_dropping_embedding(row, now) ==
    [row EXCEPT !.is_deleted = 1, !.deleted_at = Some(now), !.status = Some("deleted"),
                !.embedding = None, !.synced_at = Some(now), !.updated_at = Some(now)]

soft_delete_row(row, now) ==
    [row EXCEPT !.is_deleted = 1, !.deleted_at = Some(now), !.status = Some("deleted"),
                !.synced_at = Some(now), !.updated_at = Some(now)]

\* Variant of soft_delete_product that removes the row instead of marking it.
soft_delete_product_removing(rows, wc_product_id, merchant_id, now) ==
    SelectSeq(rows, LAMBDA row : ~(row.wc_product_id = wc_product_id
                                   /\ row.merchant_id = merchant_id))

soft_delete_product(rows, wc_product_id, merchant_id, now) ==
    [i \in DOMAIN rows |->
        IF i \in query_first(rows, wc_product_id, merchant_id)
        THEN soft_delete_row(rows[i], now) ELSE rows[i]]

\* Variant of restore_row that also resets the status the soft delete wrote.
restore_row_resetting_status(row, now) ==
    [row EXCEPT !.is_deleted = 0, !.deleted_at = None, !.status = Some("publish"),
                !.synced_at = Some(now), !.updated_at = Some(now)]

\* The two assignments of restore_product: when they change the row the flush
\* emits an UPDATE, which also fires the onupdate columns; when the row already
\* holds both values nothing is emitted.
restore_row(row, now) ==
    IF row.is_deleted = 0 /\ row.deleted_at = None
    THEN row
    ELSE [row EXCEPT !.is_deleted = 0, !.deleted_at = None,
                     !.synced_at = Some(now), !.updated_at = Some(now)]

restore_product(rows, wc_product_id, merchant_id, now) ==
    [i \in DOMAIN rows |->
        IF i \in query_first(rows, wc_product_id, merchant_id)
        THEN restore_row(rows[i], now) ELSE rows[i]]

\* The row holding remote id p, as an optional value.
row_of(rows, p) ==
    IF rows_with_id(rows, p) = {} THEN None
    ELSE Some(rows[CHOOSE i \in rows_with_id(rows, p) : TRUE])

(***************************************************************************)
(* reconcile_products: the state of one invocation.  before, fetched and   *)
(* soft_deleted record what the invocation saw and did: the tenant's       *)
(* active ids when it was entered, the number of products the client       *)
(* returned to it, and the ids its delete pass soft-deleted;               *)
(* webhook_upserts records the ids a webhook upserted for the tenant while *)
(* the invocation was running, and upserted the ids whose upsert the       *)
(* invocation committed.                                                   *)
(***************************************************************************)
ReconciliationResult ==
    [status |-> "completed", products_checked |-> 0, products_added |-> 0,
     products_updated |-> 0, products_deleted |-> 0, errors |-> << >>]

\* What the remote answered to a request that is still awaited.
NoPage == [products |-> << >>, total |-> 0, total_pages |-> 0]

IdleReconcile ==
    [pc |-> "idle", page |-> 1, wc_product_ids |-> {}, items |-> << >>,
     total_pages |-> 0, response |-> NoPage, local_products |-> << >>,
     result |-> ReconciliationResult,
     before |-> {}, fetched |-> 0, soft_deleted |-> {}, webhook_upserts |-> {},
     upserted |-> {}]

(***************************************************************************)
(* fetch_all_products_from_woocommerce: the state of one invocation.       *)
(* batch holds the counters of sync_products_batch for the page at hand;   *)
(* upserted and failed record the ids whose upsert the invocation          *)
(* committed and the ids whose upsert raised, and nonempty_pages the       *)
(* number of answers with products the invocation received.                *)
(***************************************************************************)
BatchStats ==
    [synced_count |-> 0, created_count |-> 0, updated_count |-> 0, failed_count |-> 0]

TotalStats ==
    [status |-> "completed", total_products |-> 0, synced_count |-> 0, created_count |-> 0,
     updated_count |-> 0, failed_count |-> 0, pages_fetched |-> 0, error |-> None]

IdleBulk ==
    [pc |-> "idle", origin |-> "none", page |-> 1, items |-> << >>, page_len |-> 0,
     total_pages |-> 0, response |-> NoPage, batch |-> BatchStats,
     total_stats |-> TotalStats, upserted |-> {}, failed |-> {}, nonempty_pages |-> 0,
     per_page |-> 0]

\* reconciliation_job: the stores still to be processed.
IdleJob == [pc |-> "idle", stores |-> << >>]

\* No inbound request has been answered yet.
NoResponse ==
    [path |-> "none", authentic |-> FALSE, status_code |-> 0, action |-> "none",
     topic |-> << >>, body |-> << >>]

\* verify_woocommerce_webhook has not been called.
NoVerify == [payload |-> << >>, signature |-> << >>, secret |-> << >>, result |-> None]

InitStores == stores = [s \in Stores |-> WooCommerceStore(s)]

InitNoTasks ==
    /\ recon = [s \in Stores |-> IdleReconcile]
    /\ bulk = [s \in Stores |-> IdleBulk]
    /\ job = IdleJob

InitNoHooks ==
    /\ inbox = {}
    /\ hook = NoResponse

InitNoVerify == verify = NoVerify

\* register_webhooks has not been entered; the fields are those of its frame.
IdleRegister ==
    [pc |-> "idle", origin |-> "none", store |-> 0, topics |-> << >>, results |-> << >>,
     existing_db |-> 0, webhook_secret |-> << >>]

\* No webhook-manager or connection endpoint has been called.
NoManagerCall == [op |-> "none", store |-> 0, webhook_id |-> 0, ret |-> None, seen |-> {}]

\* A shop that holds no webhook subscription and has issued no id.
NoSubscriptions == [issued |-> 0, listed |-> {}]

InitNoSubscriptions ==
    /\ wc_webhooks = [s \in Stores |-> NoSubscriptions]
    /\ reg = [r \in Regs |-> IdleRegister]
    /\ call = NoManagerCall

(***************************************************************************)
(* Spec: the upsert engine under every sequence of calls.                  *)
(***************************************************************************)
NoCall == [op |-> "none", store |-> 0, id |-> 0, data |-> None, emb |-> None,
           pre |-> None, ret |-> FALSE]

Init ==
    /\ InitStores
    /\ webhooks = << >>
    /\ products = << >>
    /\ remote = [s \in Stores |-> {}]
    /\ InitNoTasks
    /\ InitNoSubscriptions
    /\ InitNoHooks
    /\ InitNoVerify
    /\ clock = 0
    /\ last = NoCall

\* Every committed call takes its own instant of the clock.
Advance ==
    /\ clock < MaxTime
    /\ clock' = clock + 1

UpsertCall ==
    \E s \in Stores, d \in Payloads, requested \in BOOLEAN, provider_ok \in BOOLEAN :
        LET emb == generate_embedding(d, requested, provider_ok)
        IN  /\ Advance
            /\ products' = upsert_product(products, stores[s], d, emb, clock)
            /\ last' = [op |-> "upsert", store |-> s, id |-> d.id, data |-> Some(d),
                        emb |-> emb, pre |-> row_of(products, d.id), ret |-> TRUE]
            /\ UNCHANGED frame_engine

SoftDeleteCall ==
    \E s \in Stores, p \in ProductIds :
        /\ Advance
        /\ products' = soft_delete_product(products, p, stores[s].merchant_id, clock)
        /\ last' = [op |-> "soft_delete", store |-> s, id |-> p, data |-> None,
                    emb |-> None, pre |-> row_of(products, p),
                    ret |-> query_first(products, p, stores[s].merchant_id) # {}]
        /\ UNCHANGED frame_engine

RestoreCall ==
    \E s \in Stores, p \in ProductIds :
        /\ Advance
        /\ products' = restore_product(products, p, stores[s].merchant_id, clock)
        /\ last' = [op |-> "restore", store |-> s, id |-> p, data |-> None,
                    emb |-> None, pre |-> row_of(products, p),
                    ret |-> query_first(products, p, stores[s].merchant_id) # {}]
        /\ UNCHANGED frame_engine

Next == UpsertCall \/ SoftDeleteCall \/ RestoreCall

Spec == Init /\ [][Next]_vars

(***************************************************************************)
(* Properties of the upsert engine (checked under Spec).                   *)
(***************************************************************************)
current_row == row_of(products, last.id)

\* C1: immediately after upsert_product for remote id p commits, whatever the
\* row's prior state (absent, active, soft-deleted), exactly the rows holding p
\* exist with is_deleted = 0 and deleted_at NULL, and there is such a row.
C1_UpsertLeavesRowNotDeleted ==
    last.op = "upsert" =>
        /\ rows_with_id(products, last.id) # {}
        /\ \A i \in rows_with_id(products, last.id) :
              products[i].is_deleted = 0 /\ products[i].deleted_at = None

\* C1 witness: an upsert has just hit a row that was soft-deleted.
C1_Witness ==
    /\ last.op = "upsert"
    /\ last.pre # None
    /\ last.pre[1].is_deleted = 1
    /\ last.pre[1].deleted_at # None

\* A table without the columns synced_at and updated_at.
without_timestamps(rows) ==
    [i \in DOMAIN rows |->
        [k \in DOMAIN rows[i] \ {"synced_at", "updated_at"} |-> rows[i][k]]]

unique_wc_product_id ==
    \A i, j \in DOMAIN products :
        products[i].wc_product_id = products[j].wc_product_id => i = j

\* A step that repeats the call before it: same store, same payload, same answer
\* of the embedding provider.
repeated_upsert ==
    /\ last.op = "upsert"
    /\ last'.op = "upsert"
    /\ clock' = clock + 1
    /\ last'.store = last.store
    /\ last'.data = last.data
    /\ last'.emb = last.emb

canonical_columns ==
    {"name", "slug", "sku", "type", "status", "price", "regular_price", "sale_price",
     "categories", "tags", "wc_created_at", "wc_modified_at", "raw_data"}

matches_payload(row, product_data, columns) ==
    \A k \in columns : row[k] = parse_woocommerce_product(product_data)[k]

\* C3 as stated: after an upsert of payload V2 the row equals V2 in every
\* canonicalised column, the remote-created timestamp included, and is not
\* deleted.
C3_RowMatchesLatestPayloadExactly ==
    last.op = "upsert" =>
        /\ current_row # None
        /\ matches_payload(current_row[1], last.data[1], canonical_columns)
        /\ current_row[1].is_deleted = 0

\* C3 amended: after an upsert of payload V2 the row equals V2 in every
\* canonicalised column except wc_created_at, which is V2's only when the
\* upsert inserted the row and otherwise stays what it was; the row is not
\* deleted.
C3_RowMatchesLatestPayloadButCreatedAt ==
    last.op = "upsert" =>
        /\ current_row # None
        /\ matches_payload(current_row[1], last.data[1], canonical_columns \ {"wc_created_at"})
        /\ current_row[1].wc_created_at =
              IF last.pre = None
              THEN parse_woocommerce_product(last.data[1]).wc_created_at
              ELSE last.pre[1].wc_created_at
        /\ current_row[1].is_deleted = 0
        /\ current_row[1].deleted_at = None

\* C3 witness: payload V2 was upserted over a soft-deleted row that held V1.
C3_Witness ==
    /\ last.op = "upsert"
    /\ last.data = Some(PayloadV2(last.id))
    /\ last.pre # None
    /\ last.pre[1].raw_data = PayloadV1(last.id)
    /\ last.pre[1].is_deleted = 1
    /\ current_row[1].raw_data = PayloadV2(last.id)
    /\ current_row[1].wc_created_at # parse_woocommerce_product(PayloadV2(last.id)).wc_created_at

(***************************************************************************)
(* WooCommerceClient.get_products: one page of the catalog ordered by id   *)
(* ascending, with the totals of the X-WP-Total and X-WP-TotalPages        *)
(* headers.  per_page is clamped to the API's ceiling.                     *)
(***************************************************************************)
Min(a, b) == IF a < b THEN a ELSE b

\* The catalog as the sequence of its payloads, ordered by id ascending.
order_by_id(catalog) ==
    [i \in 1..Cardinality(catalog) |->
        CHOOSE d \in catalog : Cardinality({e \in catalog : e.id < d.id}) = i - 1]

\* ceil(total / per_page): the X-WP-TotalPages header.
total_pages_of(total, per_page) == (total + per_page - 1) \div per_page

get_products(catalog, page, per_page) ==
    LET clamped == Min(per_page, MaxPerPage)
        all     == order_by_id(catalog)
        total   == Len(all)
        first   == (page - 1) * clamped + 1
        lastIx  == Min(page * clamped, total)
    IN  [products    |-> IF first > total THEN << >> ELSE SubSeq(all, first, lastIx),
         total       |-> total,
         total_pages |-> total_pages_of(total, clamped)]

\* per_page=100 in reconcile_products, which is the API's ceiling.
RECONCILE_PER_PAGE == MaxPerPage

(***************************************************************************)
(* reconcile_products, one step per awaited request and per database       *)
(* statement group.                                                        *)
(***************************************************************************)
active_ids(rows, merchant_id) ==
    { rows[i].wc_product_id : i \in { j \in DOMAIN rows : /\ rows[j].merchant_id = merchant_id
                                                          /\ rows[j].is_deleted = 0 } }

(***************************************************************************)
(* The handlers are coroutines of one event loop: between two awaits a     *)
(* coroutine runs alone.  loop_busy says that some coroutine is between    *)
(* two awaits.  sync_all_products_background runs in a thread of its own,  *)
(* beside the loop.                                                        *)
(***************************************************************************)
loop_busy ==
    \E t \in Stores :
        \/ recon[t].pc \in {"items", "query", "delete"}
        \/ bulk[t].origin # "background" /\ bulk[t].pc \in {"items", "finish"}

\* The handler is entered: result zeroed, no ids seen, page 1.
ReconcileStart(s) ==
    /\ recon[s].pc = "idle"
    /\ ~loop_busy
    /\ recon' = [recon EXCEPT ![s] =
                    [IdleReconcile EXCEPT !.pc = "fetch",
                                          !.before = active_ids(products, stores[s].merchant_id)]]
    /\ UNCHANGED << products, frame_recon >>

\* The remote answers client.get_products(page=page, per_page=100) from its
\* catalog of that moment; the handler is still awaiting.
ReconcileRequest(s) ==
    /\ recon[s].pc = "fetch"
    /\ recon' = [recon EXCEPT ![s] =
                    [@ EXCEPT !.response = get_products(remote[s], recon[s].page,
                                                        RECONCILE_PER_PAGE),
                              !.pc = "await"]]
    /\ UNCHANGED << products, frame_recon >>

\* await client.get_products(...) returns the answer to the handler.
ReconcileFetchOk(s) ==
    /\ recon[s].pc = "await"
    /\ ~loop_busy
    /\ LET r == recon[s].response
       IN  recon' = [recon EXCEPT ![s] =
                        [@ EXCEPT !.items = r.products,
                                  !.total_pages = r.total_pages,
                                  !.fetched = @ + Len(r.products),
                                  \* "if not products: break" leads to the delete pass
                                  !.pc = IF r.products = << >> THEN "query" ELSE "items"]]
    /\ UNCHANGED << products, frame_recon >>

\* Variant of reconcile_except that reports the exception as a failed run
\* without its message.
reconcile_except_failed(result, e) == [result EXCEPT !.status = "failed"]

\* Variant of reconcile_except that also zeroes the counters.
reconcile_except_zeroed(result, e) ==
    [ReconciliationResult EXCEPT !.status = "partial", !.errors = Append(result.errors, e)]

\* "except Exception as e": status partial, str(e) appended to errors.
reconcile_except(result, e) ==
    [result EXCEPT !.status = "partial", !.errors = Append(@, e)]

\* await client.get_products raises: status partial, the error appended, return.
ReconcileFetchFails(s) ==
    /\ recon[s].pc = "fetch"
    /\ recon' = [recon EXCEPT ![s] =
                    [@ EXCEPT !.result = reconcile_except(@, "request failed"),
                              !.pc = "done"]]
    /\ UNCHANGED << products, frame_recon >>

\* The counters after one product of the page: added when the tenant has no row
\* of that id, updated when its row is soft-deleted, neither otherwise.
count_product(result, existing, rows) ==
    [result EXCEPT !.products_checked = @ + 1,
                   !.products_added = IF existing = {} THEN @ + 1 ELSE @,
                   !.products_updated =
                       IF existing # {} /\ \E i \in existing : rows[i].is_deleted # 0
                       THEN @ + 1 ELSE @]

\* Variant of needs_upsert that upserts only products without a local row.
needs_upsert_only_when_absent(existing, rows) == existing = {}

\* Whether the loop body upserts the product.
needs_upsert(existing, rows) ==
    existing = {} \/ \E i \in existing : rows[i].is_deleted # 0

\* Variant of walk_ends that ends the walk after its first page.
walk_ends_after_first_page(page, total_pages) == TRUE

\* "if page >= total_pages: break"
walk_ends(page, total_pages) == page >= total_pages

\* One iteration of "for product in products": the id is recorded, the local row
\* looked up by id and merchant, and the product upserted when the row is absent
\* or soft-deleted.  After the last product of a page the loop fetches the next
\* page unless page >= total_pages.
ReconcileItem(s) ==
    /\ recon[s].pc = "items"
    /\ recon[s].items # << >>
    /\ LET product  == Head(recon[s].items)
           existing == query_first(products, product.id, stores[s].merchant_id)
           rest     == Tail(recon[s].items)
           more     == ~walk_ends(recon[s].page, recon[s].total_pages)
       IN  /\ products' = IF needs_upsert(existing, products)
                          THEN upsert_product(products, stores[s], product, None, clock)
                          ELSE products
           /\ recon' = [recon EXCEPT ![s] =
                           [@ EXCEPT !.wc_product_ids = @ \cup {product.id},
                                     !.upserted = IF needs_upsert(existing, products)
                                                  THEN @ \cup {product.id} ELSE @,
                                     !.result = count_product(@, existing, products),
                                     !.items = rest,
                                     !.page = IF rest = << >> /\ more THEN @ + 1 ELSE @,
                                     !.pc = IF rest # << >> THEN "items"
                                            ELSE IF more THEN "fetch" ELSE "query"]]
    /\ UNCHANGED frame_recon

\* An iteration in which upsert_product raises: the id was recorded and the
\* product counted as checked, nothing was committed, and the exception ends
\* the walk: status partial, the error appended, return.
ReconcileItemFails(s) ==
    /\ recon[s].pc = "items"
    /\ recon[s].items # << >>
    /\ LET product  == Head(recon[s].items)
           existing == query_first(products, product.id, stores[s].merchant_id)
       IN  /\ needs_upsert(existing, products)
           /\ recon' = [recon EXCEPT ![s] =
                           [@ EXCEPT !.wc_product_ids = @ \cup {product.id},
                                     !.result = reconcile_except(
                                                    [@ EXCEPT !.products_checked = @ + 1],
                                                    "upsert failed"),
                                     !.pc = "done"]]
    /\ UNCHANGED << products, frame_recon >>

\* Variant of select_active without the is_deleted filter.
RECURSIVE select_for_merchant(_, _)
select_for_merchant(rows, merchant_id) ==
    IF rows = << >> THEN << >>
    ELSE LET r == Head(rows)
         IN  IF r.merchant_id = merchant_id
             THEN << r.wc_product_id >> \o select_for_merchant(Tail(rows), merchant_id)
             ELSE select_for_merchant(Tail(rows), merchant_id)

\* The ids of the rows a query for the merchant's active products returns, in
\* table order.
RECURSIVE select_active(_, _)
select_active(rows, merchant_id) ==
    IF rows = << >> THEN << >>
    ELSE LET r == Head(rows)
         IN  IF r.merchant_id = merchant_id /\ r.is_deleted = 0
             THEN << r.wc_product_id >> \o select_active(Tail(rows), merchant_id)
             ELSE select_active(Tail(rows), merchant_id)

\* local_products = db.query(Product).filter(merchant, is_deleted == 0).all()
ReconcileQueryLocal(s) ==
    /\ recon[s].pc = "query"
    /\ recon' = [recon EXCEPT ![s] =
                    [@ EXCEPT !.local_products = select_active(products, stores[s].merchant_id),
                              !.pc = "delete"]]
    /\ UNCHANGED << products, frame_recon >>

\* One iteration of the delete pass: a local product whose id the walk did not
\* return is soft-deleted and counted.
ReconcileDeleteItem(s) ==
    /\ recon[s].pc = "delete"
    /\ recon[s].local_products # << >>
    /\ LET p      == Head(recon[s].local_products)
           absent == p \notin recon[s].wc_product_ids
           found  == query_first(products, p, stores[s].merchant_id) # {}
       IN  /\ products' = IF absent
                          THEN soft_delete_product(products, p, stores[s].merchant_id, clock)
                          ELSE products
           /\ recon' = [recon EXCEPT ![s] =
                           [@ EXCEPT !.local_products = Tail(@),
                                     !.result = [@ EXCEPT !.products_deleted =
                                                     IF absent THEN @ + 1 ELSE @],
                                     !.soft_deleted = IF absent /\ found THEN @ \cup {p} ELSE @]]
    /\ UNCHANGED frame_recon

\* The delete pass is over: the result is returned.
ReconcileReturn(s) ==
    /\ recon[s].pc = "delete"
    /\ recon[s].local_products = << >>
    /\ recon' = [recon EXCEPT ![s] = [@ EXCEPT !.pc = "done"]]
    /\ UNCHANGED << products, frame_recon >>

(***************************************************************************)
(* SpecReconcile: one reconcile_products invocation, running alone, from    *)
(* every seeded table and every remote catalog.                            *)
(***************************************************************************)
\* A row that store s upserted from version 1 of product p, soft-deleted or not.
seed_row(p, s, deleted) ==
    LET row == insert_values(parse_woocommerce_product(PayloadV1(p)), WooCommerceStore(s), None, 0)
    IN  IF deleted THEN soft_delete_row(row, 0) ELSE row

\* The tables that hold, for each id up to n, no row or one seeded row.
RECURSIVE SeedTables(_)
SeedTables(n) ==
    IF n = 0 THEN { << >> }
    ELSE LET smaller == SeedTables(n - 1)
         IN  smaller \cup { Append(t, seed_row(n, s, d)) :
                               t \in smaller, s \in Stores, d \in BOOLEAN }

\* The remote catalogs: at most one payload per product id.
Catalogs == { c \in SUBSET Payloads : \A d, e \in c : d.id = e.id => d = e }

InitReconcile ==
    /\ InitStores
    /\ webhooks = << >>
    /\ products \in SeedTables(NumProducts)
    /\ \E c \in Catalogs : remote = [s \in Stores |-> c]
    /\ InitNoTasks
    /\ InitNoSubscriptions
    /\ InitNoHooks
    /\ InitNoVerify
    /\ clock = 0
    /\ last = NoCall

\* Only one invocation runs in a behaviour of this specification.
ReconcileAlone(s) ==
    /\ \A t \in Stores : recon[t].pc = "idle"
    /\ ReconcileStart(s)

NextReconcile ==
    \E s \in Stores :
        \/ ReconcileAlone(s)
        \/ ReconcileRequest(s)
        \/ ReconcileFetchOk(s)
        \/ ReconcileFetchFails(s)
        \/ ReconcileItem(s)
        \/ ReconcileItemFails(s)
        \/ ReconcileQueryLocal(s)
        \/ ReconcileDeleteItem(s)
        \/ ReconcileReturn(s)

SpecReconcile == InitReconcile /\ [][NextReconcile]_vars

\* The row of remote id p that belongs to store s, as an optional value.
tenant_row(rows, p, s) ==
    LET ix == query_first(rows, p, stores[s].merchant_id)
    IN  IF ix = {} THEN None ELSE Some(rows[CHOOSE i \in ix : TRUE])

\* C4: when a reconcile that ran alone returns without an exception, every
\* product of the tenant that was active before the call and whose id the walk
\* did not return is soft-deleted, every one whose id the walk returned is
\* still active, products_checked is the number of products the walk returned
\* and products_deleted is the number of products this call soft-deleted.
C4_ReconcileDeletesByAbsence ==
    \A s \in Stores :
        (recon[s].pc = "done" /\ recon[s].result.status = "completed") =>
            /\ \A p \in recon[s].before \ recon[s].wc_product_ids :
                  /\ tenant_row(products, p, s) # None
                  /\ tenant_row(products, p, s)[1].is_deleted = 1
            /\ \A p \in recon[s].before \cap recon[s].wc_product_ids :
                  /\ tenant_row(products, p, s) # None
                  /\ tenant_row(products, p, s)[1].is_deleted = 0
            /\ recon[s].soft_deleted = recon[s].before \ recon[s].wc_product_ids
            /\ recon[s].result.products_checked = recon[s].fetched
            /\ recon[s].result.products_deleted = Cardinality(recon[s].soft_deleted)

\* C4 witness: a reconcile returned completed, having soft-deleted one active
\* product of the tenant and kept another that the walk returned.
C4_Witness ==
    \E s \in Stores :
        /\ recon[s].pc = "done"
        /\ recon[s].result.status = "completed"
        /\ recon[s].result.products_checked = 1
        /\ recon[s].before \ recon[s].wc_product_ids # {}
        /\ recon[s].before \cap recon[s].wc_product_ids # {}
        /\ recon[s].result.products_deleted = 1

\* A step of the walk's loop body for store s in which no exception is raised.
is_reconcile_item(s) ==
    /\ recon[s].pc = "items"
    /\ recon'[s].result.products_checked = recon[s].result.products_checked + 1
    /\ recon'[s].result.errors = recon[s].result.errors

\* C5: in the walk, a remote product without a local row of the tenant is
\* upserted (its row exists afterwards, not deleted, holding the remote payload)
\* and counted in products_added only; one whose local row is soft-deleted is
\* upserted likewise and counted in products_updated only; one whose local row
\* is active leaves the table and both counters as they are.
C5_ReconcileAddsAndRestores ==
    [][\A s \in Stores :
          is_reconcile_item(s) =>
              LET product == Head(recon[s].items)
                  before  == tenant_row(products, product.id, s)
                  after   == row_of(products', product.id)
                  r       == recon[s].result
                  r2      == recon'[s].result
                  upserted == /\ after # None
                              /\ after[1].is_deleted = 0
                              /\ after[1].raw_data = product
              IN  /\ before = None =>
                        /\ upserted
                        /\ r2.products_added = r.products_added + 1
                        /\ r2.products_updated = r.products_updated
                  /\ (before # None /\ before[1].is_deleted = 1) =>
                        /\ upserted
                        /\ tenant_row(products', product.id, s)[1].is_deleted = 0
                        /\ r2.products_added = r.products_added
                        /\ r2.products_updated = r.products_updated + 1
                  /\ (before # None /\ before[1].is_deleted = 0) =>
                        /\ products' = products
                        /\ r2.products_added = r.products_added
                        /\ r2.products_updated = r.products_updated
      ]_vars

\* C5 witness: one walk is over two products; it restored the one whose row was
\* soft-deleted, which now holds version 2, and passed over the one whose row
\* was active.
C5_Witness ==
    \E s \in Stores :
        /\ recon[s].result.products_checked = NumProducts
        /\ recon[s].result.products_updated = 1
        /\ recon[s].result.products_added = 0
        /\ \E p \in recon[s].wc_product_ids \ recon[s].before :
              /\ tenant_row(products, p, s) # None
              /\ tenant_row(products, p, s)[1].raw_data = PayloadV2(p)
              /\ tenant_row(products, p, s)[1].is_deleted = 0
        /\ recon[s].wc_product_ids \cap recon[s].before # {}

(***************************************************************************)
(* fetch_all_products_from_woocommerce, one step per awaited request and   *)
(* per product of sync_products_batch.                                     *)
(***************************************************************************)
\* settings.WC_PRODUCTS_PER_PAGE is 100, which is the API's ceiling.
WC_PRODUCTS_PER_PAGE == MaxPerPage

\* get_merchant_from_header: the store exists, is active and is verified.
get_merchant_from_header(s) ==
    /\ stores[s].is_active # 0
    /\ stores[s].is_verified # 0

\* The function is entered by origin: total_stats zeroed, page 1, and
\* "per_page = settings.WC_PRODUCTS_PER_PAGE" read from a configuration that
\* holds the value configured.
enter_bulk(s, origin, configured) ==
    /\ bulk[s].pc = "idle"
    /\ bulk' = [bulk EXCEPT ![s] = [IdleBulk EXCEPT !.pc = "fetch", !.origin = origin,
                                                    !.per_page = configured]]

\* The function is entered under the default configuration.
start_bulk(s, origin) == enter_bulk(s, origin, WC_PRODUCTS_PER_PAGE)

\* POST /trigger: the sync runs in the handler, or with background=true in a
\* background task.
trigger_sync(s, background) ==
    /\ get_merchant_from_header(s)
    /\ ~loop_busy
    /\ start_bulk(s, IF background THEN "background" ELSE "trigger")
    /\ UNCHANGED << stores, products, frame_bulk >>

\* POST /force-resync: the sync always runs in a background task.
force_resync(s) ==
    /\ get_merchant_from_header(s)
    /\ ~loop_busy
    /\ start_bulk(s, "background")
    /\ UNCHANGED << stores, products, frame_bulk >>

\* The remote answers client.get_products(page, per_page, status='any') from
\* its catalog of that moment; the function is still awaiting.
BulkRequest(s) ==
    /\ bulk[s].pc = "fetch"
    /\ bulk' = [bulk EXCEPT ![s] =
                   [@ EXCEPT !.response = get_products(remote[s], bulk[s].page,
                                                       bulk[s].per_page),
                             !.pc = "await"]]
    /\ UNCHANGED << stores, products, frame_bulk >>

\* Variant of bulk_except that keeps the status and drops the message.
bulk_except_silent(total_stats, e) == total_stats

\* "except Exception as e": status failed, total_stats['error'] = str(e).
bulk_except(total_stats, e) ==
    [total_stats EXCEPT !.status = "failed", !.error = Some(e)]

\* await client.get_products raises: status failed, the error kept, and
\* last_synced_at is not touched.
BulkFetchFails(s) ==
    /\ bulk[s].pc = "fetch"
    /\ bulk' = [bulk EXCEPT ![s] =
                   [@ EXCEPT !.total_stats = bulk_except(@, "request failed"),
                             !.pc = "done"]]
    /\ UNCHANGED << stores, products, frame_bulk >>

\* await client.get_products returns: an empty page ends the loop; the total
\* is taken from the first page; the batch of the page begins.
BulkFetchOk(s) ==
    /\ bulk[s].pc = "await"
    /\ bulk[s].origin = "background" \/ ~loop_busy
    /\ LET r == bulk[s].response
       IN  bulk' = [bulk EXCEPT ![s] =
                       IF r.products = << >>
                       THEN [@ EXCEPT !.pc = "finish"]
                       ELSE [@ EXCEPT !.items = r.products,
                                      !.nonempty_pages = @ + 1,
                                      !.page_len = Len(r.products),
                                      !.total_pages = r.total_pages,
                                      !.batch = BatchStats,
                                      !.total_stats =
                                          [@ EXCEPT !.total_products =
                                               IF bulk[s].page = 1 THEN r.total ELSE @],
                                      !.pc = "items"]]
    /\ UNCHANGED << stores, products, frame_bulk >>

\* Variant of count_synced that counts every upserted product as created.
count_synced_as_created(stats, existing) ==
    [stats EXCEPT !.synced_count = @ + 1, !.created_count = @ + 1]

\* The counters of sync_products_batch after one product was upserted: updated
\* when a row of that id existed, whoever owns it, created otherwise.
count_synced(stats, existing) ==
    [stats EXCEPT !.synced_count = @ + 1,
                  !.updated_count = IF existing # {} THEN @ + 1 ELSE @,
                  !.created_count = IF existing = {} THEN @ + 1 ELSE @]

\* total_stats after the batch of a page was accumulated.
accumulate(total_stats, batch_stats) ==
    [total_stats EXCEPT !.synced_count = @ + batch_stats.synced_count,
                        !.created_count = @ + batch_stats.created_count,
                        !.updated_count = @ + batch_stats.updated_count,
                        !.failed_count = @ + batch_stats.failed_count,
                        !.pages_fetched = @ + 1]

\* Variant of last_page with which the loop ends on an empty page only.
last_page_never(page, total_pages, page_len, per_page) == FALSE

\* "if page >= total_pages or len(products) < per_page: break"
last_page(page, total_pages, page_len, per_page) ==
    page >= total_pages \/ page_len < per_page

\* Variant of count_failed that counts the product as synced.
count_failed_as_synced(stats) == [stats EXCEPT !.synced_count = @ + 1]

\* The counters of sync_products_batch after the upsert of one product raised.
count_failed(stats) == [stats EXCEPT !.failed_count = @ + 1]

\* The invocation after one iteration of sync_products_batch left the counters
\* batch_stats: after the last product of the page the batch is accumulated and
\* the loop either ends or goes to the next page.
after_item(b, batch_stats) ==
    LET rest == Tail(b.items)
        ends == last_page(b.page, b.total_pages, b.page_len, b.per_page)
    IN  IF rest # << >>
        THEN [b EXCEPT !.items = rest, !.batch = batch_stats]
        ELSE [b EXCEPT !.items = rest,
                       !.batch = batch_stats,
                       !.total_stats = accumulate(@, batch_stats),
                       !.page = IF ends THEN @ ELSE @ + 1,
                       !.pc = IF ends THEN "finish" ELSE "fetch"]

\* One iteration of sync_products_batch: the row is looked up by remote id alone
\* and the product upserted, with an embedding when the provider answers.
BulkItem(s) ==
    /\ bulk[s].pc = "items"
    /\ bulk[s].items # << >>
    /\ \E provider_ok \in BOOLEAN :
         LET product_data == Head(bulk[s].items)
             existing     == rows_with_id(products, product_data.id)
             embedding    == generate_embedding(product_data, ENABLE_EMBEDDINGS, provider_ok)
         IN  /\ products' = upsert_product(products, stores[s], product_data, embedding, clock)
             /\ bulk' = [bulk EXCEPT ![s] =
                            [after_item(@, count_synced(bulk[s].batch, existing))
                                EXCEPT !.upserted = @ \cup {product_data.id}]]
    /\ UNCHANGED << stores, frame_bulk >>

\* An iteration of sync_products_batch in which the lookup or the upsert raises:
\* failed_count is incremented, the transaction rolled back, nothing of this
\* product is committed, and the batch goes on.
BulkItemFails(s) ==
    /\ bulk[s].pc = "items"
    /\ bulk[s].items # << >>
    /\ bulk' = [bulk EXCEPT ![s] =
                   [after_item(@, count_failed(bulk[s].batch))
                       EXCEPT !.failed = @ \cup {Head(bulk[s].items).id}]]
    /\ UNCHANGED << stores, products, frame_bulk >>

\* Variant of BulkFinish that soft-deletes the tenant's rows the sync did not
\* upsert, as the reconcile does.
BulkFinishDeletingMissing(s) ==
    /\ bulk[s].pc = "finish"
    /\ stores' = [stores EXCEPT ![s] = [@ EXCEPT !.last_synced_at = Some(clock)]]
    /\ bulk' = [bulk EXCEPT ![s] = [@ EXCEPT !.pc = "done"]]
    /\ products' = [i \in DOMAIN products |->
                       IF /\ products[i].merchant_id = stores[s].merchant_id
                          /\ products[i].wc_product_id \notin bulk[s].upserted
                       THEN soft_delete_row(products[i], clock) ELSE products[i]]
    /\ UNCHANGED frame_bulk

\* After the loop: store.last_synced_at = now, commit, return total_stats.
BulkFinish(s) ==
    /\ bulk[s].pc = "finish"
    /\ stores' = [stores EXCEPT ![s] = [@ EXCEPT !.last_synced_at = Some(clock)]]
    /\ bulk' = [bulk EXCEPT ![s] = [@ EXCEPT !.pc = "done"]]
    /\ UNCHANGED << products, frame_bulk >>

(***************************************************************************)
(* reconciliation_job: every active and verified store is handed to        *)
(* reconcile_store, which awaits fetch_all_products_from_woocommerce.  The *)
(* interval trigger and run_reconciliation_now both enter here.            *)
(***************************************************************************)
\* Variant of active_verified_stores whose query leaves out is_verified.
RECURSIVE active_stores(_)
active_stores(n) ==
    IF n = 0 THEN << >>
    ELSE LET smaller == active_stores(n - 1)
         IN  IF stores[n].is_active = 1 THEN Append(smaller, n) ELSE smaller

\* The ids of the stores the job's query returns, in id order.
RECURSIVE active_verified_stores(_)
active_verified_stores(n) ==
    IF n = 0 THEN << >>
    ELSE LET smaller == active_verified_stores(n - 1)
         IN  IF stores[n].is_active = 1 /\ stores[n].is_verified = 1
             THEN Append(smaller, n) ELSE smaller

reconciliation_job ==
    /\ job.pc = "idle"
    /\ ~loop_busy
    /\ job' = [pc |-> "loop", stores |-> active_verified_stores(NumStores)]
    /\ UNCHANGED frame_job
    /\ UNCHANGED bulk

\* "await reconcile_store(store, db)" is entered for the next store.
reconcile_store ==
    /\ job.pc = "loop"
    /\ job.stores # << >>
    /\ start_bulk(Head(job.stores), "job")
    /\ job' = [job EXCEPT !.pc = "await"]
    /\ UNCHANGED frame_job

\* reconcile_store returned: the result is logged and the loop goes on.
JobStoreDone ==
    /\ job.pc = "await"
    /\ bulk[Head(job.stores)].pc = "done"
    /\ job' = [job EXCEPT !.pc = "loop", !.stores = Tail(@)]
    /\ UNCHANGED frame_job
    /\ UNCHANGED bulk

\* The loop is over: the job completed.
JobEnd ==
    /\ job.pc = "loop"
    /\ job.stores = << >>
    /\ job' = [job EXCEPT !.pc = "done"]
    /\ UNCHANGED frame_job
    /\ UNCHANGED bulk

(***************************************************************************)
(* verify_woocommerce_webhook.  A byte string or a text is a tuple, the    *)
(* empty one being << >>.  HMAC-SHA256 and base64 are taken to be free of   *)
(* collisions: a digest is the tagged pair of its key and message, and an  *)
(* encoding the tagged value it encodes.                                   *)
(***************************************************************************)
hmac_sha256(key, msg) == << "hmac-sha256", key, msg >>

b64encode(digest) == << "base64", digest >>

\* A header value with a character outside ASCII.
NonAscii == << "non-ascii" >>

\* hmac.compare_digest raises TypeError on a text with non-ASCII characters.
compare_digest_raises(a, b) == a = NonAscii \/ b = NonAscii

\* Variant of verify_woocommerce_webhook that does not compare the digests.
verify_accepts_any_signature(payload, signature, secret) ==
    signature # << >> /\ secret # << >>

\* Variant of verify_woocommerce_webhook whose digest leaves out the payload.
verify_ignoring_payload(payload, signature, secret) ==
    IF signature = << >> \/ secret = << >> THEN FALSE
    ELSE LET expected_signature == b64encode(hmac_sha256(secret, << >>))
         IN  IF compare_digest_raises(expected_signature, signature)
             THEN FALSE
             ELSE expected_signature = signature

verify_woocommerce_webhook(payload, signature, secret) ==
    IF signature = << >> \/ secret = << >> THEN FALSE
    ELSE LET expected_signature == b64encode(hmac_sha256(secret, payload))
         IN  IF compare_digest_raises(expected_signature, signature)
             THEN FALSE    \* "except Exception: return False"
             ELSE expected_signature = signature

(***************************************************************************)
(* verify_wc_webhook and the inbound product handlers.  A request is its   *)
(* five headers, each optional, and its raw body; the body is the JSON     *)
(* encoding of a payload or is not JSON.                                   *)
(***************************************************************************)
json_dumps(d) == << "json", d >>

NotJson == << "not json" >>

\* A body with a byte sequence that is not UTF-8.
NotUtf8 == << "not utf-8" >>

\* body.decode('utf-8') raises UnicodeDecodeError, which is no JSONDecodeError.
decode_raises(body) == body = NotUtf8

\* json.loads(body): the payload, or None for JSONDecodeError.
json_loads(body) == IF Len(body) = 2 /\ body[1] = "json" THEN Some(body[2]) ELSE None

\* A topic "resource.event" is the pair of its two parts.
WEBHOOK_TOPICS ==
    { << "product", "created" >>, << "product", "updated" >>,
      << "product", "deleted" >>, << "product", "restored" >> }

\* str() of an optional header inside an f-string.
str(x) == IF x = None THEN "None" ELSE x[1]

\* x.rstrip('/') for a URL, which is a scheme-and-host pair followed by slashes.
RECURSIVE rstrip_slash(_)
rstrip_slash(x) ==
    IF Len(x) > 2 /\ x[Len(x)] = "/" THEN rstrip_slash(SubSeq(x, 1, Len(x) - 1)) ELSE x

\* A row of the webhooks table.
Webhook(s, topic, secret, is_active) ==
    [store_id |-> s, merchant_id |-> WooCommerceStore(s).merchant_id, topic |-> topic,
     secret |-> secret, status |-> IF is_active = 1 THEN "active" ELSE "disabled",
     is_active |-> is_active]

\* The first element of a non-empty set of indices or ids: what .first() returns.
first(S) == CHOOSE i \in S : \A j \in S : i <= j

\* What the dependency hands to the handler (status_code 200) or the status of
\* the HTTPException it raises.
Denied(status_code) == [status_code |-> status_code, store |-> 0, payload |-> None]

\* The topic the dependency looks the subscription up by: the topic header,
\* or "resource.event" when it is missing or empty.
webhook_topic(request) ==
    IF request.topic # None /\ request.topic # Some(<< >>)
    THEN request.topic[1]
    ELSE << str(request.resource), str(request.event) >>

verify_wc_webhook(request) ==
    IF \/ request.source = None \/ request.source = Some(<< >>)
       \/ request.signature = None \/ request.signature = Some(<< >>)
    THEN Denied(401)
    ELSE
    LET store_url == rstrip_slash(request.source[1])
        found     == { s \in DOMAIN stores : /\ stores[s].store_url = store_url
                                      /\ stores[s].is_active = 1 }
    IN  IF found = {} THEN Denied(404)
        ELSE
        LET store == first(found)
            topic == webhook_topic(request)
            rows  == { i \in DOMAIN webhooks : /\ webhooks[i].store_id = store
                                               /\ webhooks[i].topic = topic
                                               /\ webhooks[i].is_active = 1 }
        IN  IF rows = {} THEN Denied(401)
            ELSE
            LET webhook == webhooks[first(rows)]
            IN  IF webhook.secret = None \/ webhook.secret = Some(<< >>) THEN Denied(401)
                ELSE IF ~verify_woocommerce_webhook(request.body, request.signature[1],
                                                    webhook.secret[1])
                THEN Denied(401)
                \* the exception leaves the dependency: the framework answers 500
                ELSE IF decode_raises(request.body) THEN Denied(500)
                ELSE IF json_loads(request.body) = None THEN Denied(400)
                ELSE [status_code |-> 200, store |-> store,
                      payload |-> json_loads(request.body)]

\* Whether the request carries the signature of its raw body under the stored
\* secret of an active subscription, for the request's topic, of the active
\* store the request names.
authentic(request) ==
    /\ request.source # None
    /\ request.signature # None
    /\ \E s \in DOMAIN stores, i \in DOMAIN webhooks :
          /\ stores[s].is_active = 1
          /\ stores[s].store_url = rstrip_slash(request.source[1])
          /\ webhooks[i].store_id = s
          /\ webhooks[i].is_active = 1
          /\ webhooks[i].topic = webhook_topic(request)
          /\ webhooks[i].secret # None
          /\ webhooks[i].secret # Some(<< >>)
          /\ request.signature[1] = b64encode(hmac_sha256(webhooks[i].secret[1], request.body))

\* The answer to a request posted to path, with the topic and the body it
\* carried.
answered(request, path, status_code, action) ==
    [path |-> path, authentic |-> authentic(request), status_code |-> status_code,
     action |-> action, topic |-> webhook_topic(request), body |-> request.body]

\* product_created_webhook, product_updated_webhook and product_restored_webhook
\* have one body: upsert_product(db, store, payload, generate_embedding=True).
upsert_webhook(request, path, action) ==
    LET webhook_data == verify_wc_webhook(request)
    IN  IF webhook_data.status_code # 200
        THEN /\ products' = products
             /\ hook' = answered(request, path, webhook_data.status_code, "none")
        ELSE \E provider_ok \in BOOLEAN :
                LET payload == webhook_data.payload[1]
                IN  /\ products' = upsert_product(products, stores[webhook_data.store], payload,
                                                  generate_embedding(payload, TRUE, provider_ok),
                                                  clock)
                    /\ hook' = answered(request, path, 200, action)

product_created_webhook(request) == upsert_webhook(request, "/product/created", "created")

product_updated_webhook(request) == upsert_webhook(request, "/product/updated", "updated")

product_restored_webhook(request) == upsert_webhook(request, "/product/restored", "restored")

product_deleted_webhook(request) ==
    LET webhook_data == verify_wc_webhook(request)
    IN  IF webhook_data.status_code # 200
        THEN /\ products' = products
             /\ hook' = answered(request, "/product/deleted", webhook_data.status_code,
                                  "none")
        ELSE LET product_id == webhook_data.payload[1].id
                 merchant_id == stores[webhook_data.store].merchant_id
                 success == query_first(products, product_id, merchant_id) # {}
             IN  /\ products' = soft_delete_product(products, product_id, merchant_id, clock)
                 /\ hook' = answered(request, "/product/deleted", 200,
                                      IF success THEN "deleted" ELSE "not_found")

(***************************************************************************)
(* SpecConcurrent: for one store, a reconcile, a bulk sync and the         *)
(* deliveries of the remote's product.created webhooks, interleaved.       *)
(***************************************************************************)
\* The secret generate_webhook_secret gave to the subscriptions of store s.
secret_of(s) == << "whsec", s >>

TopicSeq ==
    << << "product", "created" >>, << "product", "updated" >>,
       << "product", "deleted" >>, << "product", "restored" >> >>

\* The rows register_webhooks leaves for store s: one per topic, with a secret.
registered(s, secret, is_active) ==
    [i \in 1..Len(TopicSeq) |-> Webhook(s, TopicSeq[i], secret, is_active)]

RECURSIVE all_registered(_)
all_registered(n) ==
    IF n = 0 THEN << >>
    ELSE all_registered(n - 1) \o registered(n, Some(secret_of(n)), 1)

\* The ids of a remote catalog.
ids_of(catalog) == { d.id : d \in catalog }

\* The request the remote delivers for topic about payload d of store s,
\* signed with the subscription's secret.
delivery(s, topic, d) ==
    [source    |-> Some(stores[s].store_url),
     signature |-> Some(b64encode(hmac_sha256(secret_of(s), json_dumps(d)))),
     topic     |-> Some(topic),
     resource  |-> Some(topic[1]),
     event     |-> Some(topic[2]),
     body      |-> json_dumps(d)]

InitConcurrent ==
    /\ InitStores
    /\ webhooks = all_registered(NumStores)
    /\ products = << >>
    /\ \E c \in Catalogs : remote = [s \in Stores |-> c]
    /\ InitNoTasks
    /\ InitNoSubscriptions
    /\ InitNoHooks
    /\ InitNoVerify
    /\ clock = 0
    /\ last = NoCall

\* The behaviours of this specification are about one store: nothing has been
\* started for any other.
only_store(s) ==
    \A t \in Stores \ {s} : recon[t].pc = "idle" /\ bulk[t].pc = "idle"

running(s) == recon[s].pc \notin {"idle", "done"} \/ bulk[s].pc \notin {"idle", "done"}

\* While an operation runs for store s, the merchant creates product p in the
\* shop, and the shop sends the product.created webhook.
RemoteCreate(s, p) ==
    /\ running(s)
    /\ p \notin ids_of(remote[s])
    /\ remote' = [remote EXCEPT ![s] = @ \cup {PayloadV1(p)}]
    /\ inbox' = inbox \cup {delivery(s, << "product", "created" >>, PayloadV1(p))}
    /\ UNCHANGED << stores, webhooks, products, clock, last, recon, bulk, job, hook, verify,
                    frame_subs >>

\* A delivery reaches POST /product/created.
DeliverCreated ==
    \E request \in inbox :
        /\ ~loop_busy
        /\ product_created_webhook(request)
        /\ inbox' = inbox \ {request}
        /\ LET webhook_data == verify_wc_webhook(request)
               s == webhook_data.store
           IN  recon' = IF webhook_data.status_code = 200 /\ recon[s].pc \notin {"idle", "done"}
                        THEN [recon EXCEPT ![s] =
                                 [@ EXCEPT !.webhook_upserts = @ \cup {webhook_data.payload[1].id}]]
                        ELSE recon
        /\ UNCHANGED frame_hook

NextConcurrent ==
    \E s \in Stores :
        \/ only_store(s) /\ ReconcileStart(s)
        \/ ReconcileRequest(s)
        \/ ReconcileFetchOk(s)
        \/ ReconcileFetchFails(s)
        \/ ReconcileItem(s)
        \/ ReconcileQueryLocal(s)
        \/ ReconcileDeleteItem(s)
        \/ ReconcileReturn(s)
        \/ only_store(s) /\ \E background \in BOOLEAN : trigger_sync(s, background)
        \/ only_store(s) /\ force_resync(s)
        \/ BulkRequest(s)
        \/ BulkFetchFails(s)
        \/ BulkFetchOk(s)
        \/ BulkItem(s)
        \/ BulkFinish(s)
        \/ \E p \in ProductIds : RemoteCreate(s, p)
        \/ DeliverCreated

SpecConcurrent == InitConcurrent /\ [][NextConcurrent]_vars

\* The number of product writes a reconcile has made.
reconcile_writes(s) ==
    recon[s].result.products_added + recon[s].result.products_updated
        + recon[s].result.products_deleted

\* The reconcile of store s has written and its next step writes again.
reconcile_between_writes(s) ==
    /\ reconcile_writes(s) > 0
    /\ recon[s].pc = "items"
    /\ needs_upsert(query_first(products, Head(recon[s].items).id, stores[s].merchant_id),
                    products)

\* The bulk sync of store s has written and its next step writes again.
bulk_between_writes(s) ==
    /\ bulk[s].batch.synced_count + bulk[s].total_stats.synced_count > 0
    /\ bulk[s].pc = "items"

\* C6: in every reachable state, a reconcile and a bulk sync (trigger-sync,
\* background sync) of the same store are never both between their first and
\* their last product write.
C6_OneWriterPerStore ==
    \A s \in Stores : ~(reconcile_between_writes(s) /\ bulk_between_writes(s))

\* C7: under every interleaving of a reconcile with verified product.created
\* webhook upserts, a product that a webhook upserted for the tenant while the
\* reconcile was running and that is in the remote catalog is not soft-deleted
\* by the reconcile's delete pass.
C7_ReconcileSparesWebhookUpserts ==
    [][\A s \in Stores, p \in ProductIds :
          (/\ p \in recon'[s].soft_deleted
           /\ p \notin recon[s].soft_deleted
           /\ p \in recon[s].webhook_upserts) => p \notin ids_of(remote[s])
      ]_vars

(***************************************************************************)
(* SpecWebhook: one inbound request, from any sender, against every        *)
(* condition of the stores and their subscriptions.                        *)
(***************************************************************************)
Conditions == {"ok", "inactive", "unregistered", "disabled", "no_secret"}

\* The tables of stores 1..n under an assignment of conditions.
RECURSIVE stores_under(_, _)
stores_under(condition, n) ==
    IF n = 0 THEN << >>
    ELSE Append(stores_under(condition, n - 1),
                [WooCommerceStore(n) EXCEPT
                    !.is_active = IF condition[n] = "inactive" THEN 0 ELSE 1])

RECURSIVE webhooks_under(_, _)
webhooks_under(condition, n) ==
    IF n = 0 THEN << >>
    ELSE webhooks_under(condition, n - 1) \o
         CASE condition[n] = "unregistered" -> << >>
           [] condition[n] = "disabled"     -> registered(n, Some(secret_of(n)), 0)
           [] condition[n] = "no_secret"    -> registered(n, None, 1)
           [] OTHER                         -> registered(n, Some(secret_of(n)), 1)

InitWebhook ==
    /\ \E condition \in [Stores -> Conditions] :
          /\ stores = [s \in Stores |-> stores_under(condition, NumStores)[s]]
          /\ webhooks = webhooks_under(condition, NumStores)
    /\ products \in SeedTables(1)
    /\ remote = [s \in Stores |-> {}]
    /\ InitNoTasks
    /\ InitNoSubscriptions
    /\ InitNoHooks
    /\ InitNoVerify
    /\ clock = 0
    /\ last = NoCall

\* The bodies, signatures and headers a sender may choose.
Bodies == { json_dumps(PayloadV2(p)) : p \in ProductIds } \cup {NotJson, NotUtf8}

Secrets == { secret_of(s) : s \in Stores }

Sources ==
    {None, Some(<< "https://store", 0 >>)}
        \cup { Some(WooCommerceStore(s).store_url \o slash) : s \in Stores,
                                                             slash \in {<< >>, << "/" >>} }

SignaturesOf(body) ==
    {None, Some(<< "forged" >>), Some(NonAscii)}
        \cup { Some(b64encode(hmac_sha256(k, body))) : k \in Secrets }

TopicHeaders ==
    { [topic |-> Some(t), resource |-> Some(t[1]), event |-> Some(t[2])] : t \in WEBHOOK_TOPICS }
        \cup { [topic |-> None, resource |-> Some("product"), event |-> Some("updated")],
               [topic |-> None, resource |-> None, event |-> None] }

Requests ==
    UNION { { [source |-> source, signature |-> signature, topic |-> h.topic,
               resource |-> h.resource, event |-> h.event, body |-> body] :
                 source \in Sources, signature \in SignaturesOf(body), h \in TopicHeaders } :
            body \in Bodies }

\* The request reaches the handler mounted at one of the four paths.
Inbound(request) ==
    /\ hook = NoResponse
    /\ UNCHANGED << recon, inbox, frame_hook >>

InboundCreated == \E request \in Requests : Inbound(request) /\ product_created_webhook(request)

InboundUpdated == \E request \in Requests : Inbound(request) /\ product_updated_webhook(request)

InboundDeleted == \E request \in Requests : Inbound(request) /\ product_deleted_webhook(request)

InboundRestored == \E request \in Requests : Inbound(request) /\ product_restored_webhook(request)

NextWebhook == InboundCreated \/ InboundUpdated \/ InboundDeleted \/ InboundRestored

SpecWebhook == InitWebhook /\ [][NextWebhook]_vars

\* C8: a step in which an inbound request is handled changes the products
\* table only if the request carries the signature of its raw body under the
\* stored secret of an active subscription of an active store; a request
\* without it (missing source or signature header, unknown or inactive store,
\* unregistered topic, missing secret, invalid signature) is answered 401 or
\* 404 and leaves the table as it was.
C8_NoWriteWithoutVerifiedSignature ==
    [][/\ products' # products => hook'.authentic
       /\ (hook' # hook /\ ~hook'.authentic) =>
             /\ hook'.status_code \in {401, 404}
             /\ products' = products
      ]_vars

\* C8 witness: a request signed with the store's secret was handled and
\* soft-deleted the tenant's row, which was active before.
C8_Witness ==
    /\ hook.authentic
    /\ hook.status_code = 200
    /\ hook.action = "deleted"
    /\ \E i \in DOMAIN products : products[i].is_deleted = 1 /\ products[i].deleted_at # None

(***************************************************************************)
(* SpecVerify: verify_woocommerce_webhook on every payload, signature and  *)
(* secret.                                                                 *)
(***************************************************************************)
SecretValues == Secrets \cup {<< >>}

Payloads_bytes == { json_dumps(d) : d \in Payloads } \cup {NotJson}

SignatureValues ==
    {<< >>, << "forged" >>, NonAscii}
        \cup { b64encode(hmac_sha256(k, b)) : k \in SecretValues, b \in Payloads_bytes }

InitVerify ==
    /\ InitStores
    /\ webhooks = << >>
    /\ products = << >>
    /\ remote = [s \in Stores |-> {}]
    /\ InitNoTasks
    /\ InitNoSubscriptions
    /\ InitNoHooks
    /\ verify \in [payload : Payloads_bytes, signature : SignatureValues,
                   secret : SecretValues, result : {None}]
    /\ clock = 0
    /\ last = NoCall

\* The call returns.
VerifyCall ==
    /\ verify.result = None
    /\ verify' = [verify EXCEPT !.result =
                     Some(verify_woocommerce_webhook(verify.payload, verify.signature,
                                                     verify.secret))]
    /\ UNCHANGED frame_verify

SpecVerify == InitVerify /\ [][VerifyCall]_vars

\* Whether the signature is base64(HMAC-SHA256(secret, payload)).
signature_matches == verify.signature = b64encode(hmac_sha256(verify.secret, verify.payload))

\* C9 as stated: the call returns true exactly when the signature equals
\* base64(HMAC-SHA256(secret, payload)), and false when the signature or the
\* secret is empty or the comparison raises.
C9_TrueExactlyWhenSignatureMatches ==
    verify.result # None =>
        /\ verify.result[1] = signature_matches
        /\ (verify.signature = << >> \/ verify.secret = << >>) => verify.result[1] = FALSE
        /\ verify.signature = NonAscii => verify.result[1] = FALSE

\* C9 amended: the call returns true exactly when the secret is not empty and
\* the signature equals base64(HMAC-SHA256(secret, payload)); it returns false
\* when the signature or the secret is empty or the comparison raises.
C9_TrueExactlyWhenSignatureMatchesNonEmptySecret ==
    verify.result # None =>
        /\ verify.result[1] = (verify.secret # << >> /\ signature_matches)
        /\ (verify.signature = << >> \/ verify.secret = << >>) => verify.result[1] = FALSE
        /\ verify.signature = NonAscii => verify.result[1] = FALSE

\* C9 witness: a call with the signature of the payload under a secret returned
\* true.
C9_Witness ==
    /\ verify.result = Some(TRUE)
    /\ verify.secret # << >>
    /\ signature_matches
    /\ verify.payload # NotJson

(***************************************************************************)
(* SpecSweep: one run of reconciliation_job over seeded tables, with the   *)
(* remote catalogs fixed.                                                  *)
(***************************************************************************)
StoreFlags == { << 1, 1 >>, << 0, 1 >>, << 1, 0 >> }

InitSweep ==
    /\ \E flags \in [Stores -> StoreFlags] :
          stores = [s \in Stores |-> [WooCommerceStore(s) EXCEPT !.is_active = flags[s][1],
                                                                !.is_verified = flags[s][2]]]
    /\ webhooks = << >>
    /\ products \in SeedTables(NumProducts)
    /\ \E c \in Catalogs : remote = [s \in Stores |-> c]
    /\ InitNoTasks
    /\ InitNoSubscriptions
    /\ InitNoHooks
    /\ InitNoVerify
    /\ clock = 0
    /\ last = NoCall

NextSweep ==
    \/ reconciliation_job
    \/ reconcile_store
    \/ JobStoreDone
    \/ JobEnd
    \/ \E s \in Stores :
          \/ BulkRequest(s)
          \/ BulkFetchFails(s)
          \/ BulkFetchOk(s)
          \/ BulkItem(s)
          \/ BulkFinish(s)

SpecSweep == InitSweep /\ [][NextSweep]_vars

\* C10: after the sweep completed for an active, verified store, every product
\* of that store that is not in the remote catalog is soft-deleted.
C10_SweepSoftDeletesMissing ==
    \A s \in Stores :
        (/\ job.pc = "done"
         /\ stores[s].is_active = 1 /\ stores[s].is_verified = 1
         /\ bulk[s].origin = "job" /\ bulk[s].pc = "done"
         /\ bulk[s].total_stats.status = "completed") =>
            \A i \in DOMAIN products :
                (/\ products[i].merchant_id = stores[s].merchant_id
                 /\ products[i].wc_product_id \notin ids_of(remote[s])) =>
                    products[i].is_deleted = 1

(***************************************************************************)
(* Properties of a reconcile that runs alone against a fixed catalog       *)
(* (SpecReconcile).                                                        *)
(***************************************************************************)
\* The reconcile of store s returned with the given status.
reconcile_returned(s, status) ==
    recon[s].pc = "done" /\ recon[s].result.status = status

\* C11: with the remote catalog fixed and no webhook pending, when a reconcile
\* that ran alone returns completed, the ids of the tenant's active rows are
\* exactly the ids of the remote catalog.
C11_ReconcileMirrorsRemoteIds ==
    \A s \in Stores :
        reconcile_returned(s, "completed") =>
            active_ids(products, stores[s].merchant_id) = ids_of(remote[s])

\* The columns shown to users, and the raw payload.
display_columns ==
    {"name", "slug", "sku", "type", "status", "price", "regular_price", "sale_price",
     "categories", "tags", "raw_data"}

\* C12: when a reconcile returns completed, every remote product that had an
\* active row of the tenant before the call has a row whose display columns
\* and raw payload are those of the remote payload the walk returned.
C12_ReconcileUpdatesChangedProducts ==
    \A s \in Stores :
        reconcile_returned(s, "completed") =>
            \A d \in remote[s] :
                d.id \in recon[s].before =>
                    /\ tenant_row(products, d.id, s) # None
                    /\ matches_payload(tenant_row(products, d.id, s)[1], d, display_columns)

\* The counters of the result other than products_checked.
write_counters(result) ==
    << result.products_added, result.products_updated, result.products_deleted >>

\* C13: a step of the walk in which an exception is raised (a page fetch or an
\* upsert) appends its message to errors, sets status partial, returns, and
\* leaves the table and the add/update/delete counters as they were; and when a
\* reconcile has returned partial, errors is not empty, every product it
\* upserted before the exception still has its row, not deleted, holding the
\* remote payload, products_added + products_updated is the number of upserts
\* it committed, products_checked the number of products it looked at, and it
\* deleted nothing.
C13_ExceptionGivesPartialWithProgress ==
    /\ [](\A s \in Stores :
            reconcile_returned(s, "partial") =>
                /\ recon[s].result.errors # << >>
                /\ \A p \in recon[s].upserted :
                      /\ row_of(products, p) # None
                      /\ row_of(products, p)[1].is_deleted = 0
                      /\ row_of(products, p)[1].raw_data \in remote[s]
                /\ recon[s].result.products_added + recon[s].result.products_updated
                      = Cardinality(recon[s].upserted)
                /\ recon[s].result.products_checked = Cardinality(recon[s].wc_product_ids)
                /\ recon[s].result.products_deleted = 0)
    /\ [][\A s \in Stores :
            recon'[s].result.errors # recon[s].result.errors =>
                /\ Len(recon'[s].result.errors) = Len(recon[s].result.errors) + 1
                /\ recon'[s].result.status = "partial"
                /\ recon'[s].pc = "done"
                /\ write_counters(recon'[s].result) = write_counters(recon[s].result)
                /\ products' = products
       ]_vars

\* C13 witness: a reconcile returned partial after it had added one product
\* and looked at a second one.
C13_Witness ==
    \E s \in Stores :
        /\ reconcile_returned(s, "partial")
        /\ recon[s].result.errors # << >>
        /\ recon[s].result.products_added = 1
        /\ recon[s].result.products_checked = 2
        /\ \E p \in recon[s].upserted : row_of(products, p)[1].is_deleted = 0

\* The rows that the step soft-deletes.
newly_deleted ==
    { i \in DOMAIN products : /\ products[i].is_deleted = 0
                              /\ products'[i].is_deleted = 1 }

nothing_started ==
    \A t \in Stores : recon[t].pc = "idle" /\ bulk[t].pc = "idle"

NextAlone ==
    \E s \in Stores :
        \/ nothing_started /\ ReconcileStart(s)
        \/ ReconcileRequest(s)
        \/ ReconcileFetchOk(s)
        \/ ReconcileFetchFails(s)
        \/ ReconcileItem(s)
        \/ ReconcileItemFails(s)
        \/ ReconcileQueryLocal(s)
        \/ ReconcileDeleteItem(s)
        \/ ReconcileReturn(s)
        \/ nothing_started /\ \E background \in BOOLEAN : trigger_sync(s, background)
        \/ nothing_started /\ force_resync(s)
        \/ BulkRequest(s)
        \/ BulkFetchFails(s)
        \/ BulkFetchOk(s)
        \/ BulkItem(s)
        \/ BulkItemFails(s)
        \/ BulkFinish(s)

SpecAlone == InitReconcile /\ [][NextAlone]_vars /\ WF_vars(NextAlone)

\* The step is one of the bulk sync of store s in which nothing raises.
bulk_step(s) ==
    /\ bulk'[s] # bulk[s]
    /\ bulk'[s].total_stats.status = "completed"

\* The page loop of store s is left by this step without an exception.
loop_stops(s) ==
    /\ bulk[s].pc \in {"await", "items"}
    /\ bulk'[s].pc = "finish"

\* The last response of store s is empty, short, or the reported last page.
stop_condition(s) ==
    LET r == bulk[s].response
    IN  \/ r.products = << >>
        \/ Len(r.products) < WC_PRODUCTS_PER_PAGE
        \/ bulk[s].page >= r.total_pages

\* The response of store s is consumed by this step: an empty one when it
\* arrives, any other when its last product has been processed.
page_consumed(s) ==
    \/ bulk[s].pc = "await" /\ bulk[s].response.products = << >>
    \/ bulk[s].pc = "items" /\ Len(bulk[s].items) = 1

upsert_raises(s) == bulk'[s].failed # bulk[s].failed

bulk_returns(s) == bulk[s].pc # "done" /\ bulk'[s].pc = "done"

bulk_counters(total_stats) ==
    \A k \in {"total_products", "synced_count", "created_count", "updated_count",
              "failed_count", "pages_fetched"} : total_stats[k] \in Nat

\* The counters of a reconciliation result are all present and natural numbers.
reconcile_counters(result) ==
    \A k \in {"products_checked", "products_added", "products_updated",
              "products_deleted"} : result[k] \in Nat

\* C18: a remote or per-item failure never leaves a bulk sync or a reconcile
\* without a result: every started invocation returns; a step in which such a
\* failure happens either goes on (a product of a bulk batch) or returns the
\* result; a returned bulk sync has status completed or failed, failed exactly
\* when it carries an error, and its counters; a returned reconcile has status
\* completed or partial, partial exactly when errors is not empty, and its
\* counters.
C18_AlwaysAStructuredResult ==
    /\ \A s \in Stores : (bulk[s].pc = "fetch") ~> (bulk[s].pc = "done")
    /\ \A s \in Stores : (recon[s].pc = "fetch") ~> (recon[s].pc = "done")
    /\ [][\A s \in Stores :
            /\ bulk'[s].total_stats.error # bulk[s].total_stats.error
                  => bulk'[s].pc = "done"
            /\ recon'[s].result.errors # recon[s].result.errors
                  => recon'[s].pc = "done"
            /\ bulk'[s].total_stats.status # bulk[s].total_stats.status
                  => bulk'[s].pc \in {"fetch", "done"}
            /\ recon'[s].result.status # recon[s].result.status
                  => recon'[s].pc \in {"fetch", "done"}
       ]_vars
    /\ [](\A s \in Stores :
            /\ bulk[s].pc = "done" =>
                  /\ bulk[s].total_stats.status \in {"completed", "failed"}
                  /\ bulk[s].total_stats.status = "failed"
                        <=> bulk[s].total_stats.error # None
                  /\ bulk_counters(bulk[s].total_stats)
            /\ recon[s].pc = "done" =>
                  /\ recon[s].result.status \in {"completed", "partial"}
                  /\ recon[s].result.status = "partial"
                        <=> recon[s].result.errors # << >>
                  /\ reconcile_counters(recon[s].result))

\* C18 witness: a bulk sync returned failed with the counters of the page it
\* had processed, or a reconcile returned partial after an upsert had raised.
C18_Witness ==
    \E s \in Stores :
        \/ /\ bulk[s].pc = "done"
           /\ bulk[s].total_stats.status = "failed"
           /\ bulk[s].total_stats.pages_fetched = 1
           /\ bulk[s].total_stats.failed_count = 1
        \/ /\ recon[s].pc = "done"
           /\ recon[s].result.status = "partial"
           /\ recon[s].result.products_checked = 2
           /\ recon[s].result.products_added = 1

(***************************************************************************)
(* soft_delete_product, called on any table the engine can produce.        *)
(***************************************************************************)
\* The step is a call of soft_delete_product.
is_soft_delete == last'.op = "soft_delete"

\* The rows of the table before the call that hold the remote id of the call
\* and belong to the tenant of the call.
tenant_rows_of_call ==
    { i \in DOMAIN products :
        /\ products[i].wc_product_id = last'.id
        /\ products[i].merchant_id = stores[last'.store].merchant_id }

\* C19: soft_delete_product on a remote id that has a row of the tenant sets
\* is_deleted to 1, deleted_at to the time of the call and status to 'deleted'
\* in that row and returns true; on a remote id that has no row of the tenant,
\* even when another tenant has a row with it, it returns false and the table
\* is left as it was.
C19_SoftDeleteMarksTenantRowOnly ==
    [][is_soft_delete =>
          IF tenant_rows_of_call # {}
          THEN /\ last'.ret = TRUE
               /\ DOMAIN products' = DOMAIN products
               /\ \A i \in tenant_rows_of_call :
                     /\ products'[i].is_deleted = 1
                     /\ products'[i].deleted_at = Some(clock)
                     /\ products'[i].status = Some("deleted")
          ELSE /\ last'.ret = FALSE
               /\ products' = products
      ]_vars

\* C19 witness: the call soft-deleted an active row of the tenant and returned
\* true.
C19_Witness ==
    /\ last.op = "soft_delete"
    /\ last.ret = TRUE
    /\ last.pre # None
    /\ last.pre[1].is_deleted = 0
    /\ last.pre[1].merchant_id = stores[last.store].merchant_id
    /\ row_of(products, last.id)[1].is_deleted = 1
    /\ row_of(products, last.id)[1].status = Some("deleted")

\* The columns the soft-delete statement writes: the three the function
\* assigns and the two onupdate columns.
soft_delete_columns == {"is_deleted", "deleted_at", "status", "synced_at", "updated_at"}

\* The columns named as retained by a soft delete.
retained_columns ==
    {"name", "slug", "sku", "type", "status", "price", "regular_price", "sale_price",
     "categories", "tags", "raw_data", "embedding", "store_id", "merchant_id"}

\* C20 as stated: soft_delete_product leaves name, slug, sku, type, status,
\* prices, categories, tags, raw payload, embedding and tenant linkage of every
\* row as they were.
C20_SoftDeleteRetainsAllOtherFields ==
    [][is_soft_delete =>
          /\ DOMAIN products' = DOMAIN products
          /\ \A i \in DOMAIN products :
                \A k \in retained_columns : products'[i][k] = products[i][k]
      ]_vars

\* C20: soft_delete_product changes, in the row of the tenant holding the
\* remote id, only the delete flag, the deleted timestamp, the status (set to
\* 'deleted') and the row's update timestamps; every other column of that row
\* and every other row are left as they were.
C20_SoftDeleteRetainsAllButStatus ==
    [][is_soft_delete =>
          /\ DOMAIN products' = DOMAIN products
          /\ \A i \in DOMAIN products :
                IF i \in tenant_rows_of_call
                THEN /\ \A k \in DOMAIN products[i] \ soft_delete_columns :
                           products'[i][k] = products[i][k]
                     /\ DOMAIN products'[i] = DOMAIN products[i]
                ELSE products'[i] = products[i]
      ]_vars

\* C20 witness: the call soft-deleted a row that had a status of the remote, a
\* name and an embedding.
C20_Witness ==
    /\ last.op = "soft_delete"
    /\ last.ret = TRUE
    /\ last.pre # None
    /\ last.pre[1].status \notin {None, Some("deleted")}
    /\ last.pre[1].name # None
    /\ last.pre[1].embedding # None
    /\ row_of(products, last.id)[1].embedding = last.pre[1].embedding
    /\ row_of(products, last.id)[1].status = Some("deleted")

(***************************************************************************)
(* upsert_product across tenants, with a failing embedding provider, and   *)
(* in two orders.                                                          *)
(***************************************************************************)
\* The step is a call of upsert_product.
is_upsert == last'.op = "upsert"

\* The rows of the table before the call that hold the remote id of the call
\* and belong to another tenant than the one of the call.
foreign_rows_of_call ==
    { i \in DOMAIN products :
        /\ products[i].wc_product_id = last'.id
        /\ products[i].merchant_id # stores[last'.store].merchant_id }

\* C22: an upsert by a store of a remote id that has a row owned by another
\* store is rejected: the table is left as it was.
C22_CrossTenantUpsertRejected ==
    [][(is_upsert /\ foreign_rows_of_call # {}) => products' = products]_vars

\* The row holding the remote id of the call after the call, and before it.
row_after_call == products'[CHOOSE i \in DOMAIN products' :
                               products'[i].wc_product_id = last'.id]
rows_before_call == { i \in DOMAIN products : products[i].wc_product_id = last'.id }

\* C29: an upsert for which no embedding was computed (generation failed or
\* was not requested) still writes the display columns and the raw payload
\* and clears the delete flag, and leaves the stored embedding as it was (none
\* for a new row); an upsert for which one was computed stores it.
C29_EmbeddingFailureDoesNotAbortUpsert ==
    [][is_upsert =>
          /\ \E i \in DOMAIN products' : products'[i].wc_product_id = last'.id
          /\ \A k \in display_columns :
                row_after_call[k] = parse_woocommerce_product(last'.data[1])[k]
          /\ row_after_call.is_deleted = 0
          /\ row_after_call.deleted_at = None
          /\ IF last'.emb # None
             THEN row_after_call.embedding = last'.emb
             ELSE IF rows_before_call = {}
             THEN row_after_call.embedding = None
             ELSE \A i \in rows_before_call :
                     row_after_call.embedding = products[i].embedding
      ]_vars

\* C29 witness: an upsert without an embedding rewrote a soft-deleted row that
\* held another payload and an embedding, and the embedding is still there.
C29_Witness ==
    /\ last.op = "upsert"
    /\ last.emb = None
    /\ last.pre # None
    /\ last.pre[1].embedding # None
    /\ last.pre[1].is_deleted = 1
    /\ last.pre[1].raw_data # last.data[1]
    /\ row_of(products, last.id)[1].embedding = last.pre[1].embedding
    /\ row_of(products, last.id)[1].raw_data = last.data[1]
    /\ row_of(products, last.id)[1].is_deleted = 0

\* C30: from every table, upserting two payloads of one remote id for a store
\* in one order gives the same table, local timestamps aside, as upserting
\* them in the other order.
C30_UpsertsCommute ==
    \A s \in Stores, d1, d2 \in Payloads :
        d1.id = d2.id =>
            without_timestamps(
                upsert_product(upsert_product(products, stores[s], d1, None, clock),
                               stores[s], d2, None, clock))
          = without_timestamps(
                upsert_product(upsert_product(products, stores[s], d2, None, clock),
                               stores[s], d1, None, clock))

(***************************************************************************)
(* The webhook registration manager and the connection endpoints.          *)
(* wc_webhooks[s] is what the shop of store s holds: the subscriptions it  *)
(* lists and the number of ids it has issued (ids are the shop's own post  *)
(* ids, so two shops issue the same numbers).  register_webhooks awaits    *)
(* the shop once or twice per topic; between two awaits it runs alone.     *)
(***************************************************************************)
\* Record r with the fields of e added or overwritten.
extended(r, e) ==
    [k \in DOMAIN r \cup DOMAIN e |-> IF k \in DOMAIN e THEN e[k] ELSE r[k]]

\* secrets.token_urlsafe: a fresh value for every invocation.
generate_webhook_secret(r) == << "whsec", NumStores + r >>

\* Variant of new_webhook that stores a secret of the row's own instead of
\* the one the invocation sent to the shop.
new_webhook_with_own_secret(id, s, wc_webhook, webhook_secret, now) ==
    extended(Webhook(s, wc_webhook.topic, Some(<< "whsec", "row", id >>), 1),
             [id |-> id, wc_webhook_id |-> wc_webhook.id,
              last_verified_at |-> Some(now), updated_at |-> None])

\* The row register_webhooks adds for the subscription the shop created.
new_webhook(id, s, wc_webhook, webhook_secret, now) ==
    extended(Webhook(s, wc_webhook.topic, Some(webhook_secret), 1),
             [id |-> id, wc_webhook_id |-> wc_webhook.id,
              last_verified_at |-> Some(now), updated_at |-> None])

\* The rows the query for the active subscription of (store, topic) returns.
active_webhooks(rows, store_id, topic) ==
    { i \in DOMAIN rows : /\ rows[i].store_id = store_id
                          /\ rows[i].topic = topic
                          /\ rows[i].is_active = 1 }

\* "x.is_active = 0" followed by a commit, which fires onupdate of updated_at.
deactivated(row, now) == [row EXCEPT !.is_active = 0, !.updated_at = Some(now)]

\* The ids of the subscriptions the shop of store s lists.
wc_ids(s) == { w.id : w \in wc_webhooks[s].listed }

\* Variant of enter_topic that never looks for an existing subscription.
enter_topic_without_lookup(rg, rows) ==
    IF rg.topics = << >>
    THEN [rg EXCEPT !.pc = "done", !.existing_db = 0]
    ELSE [rg EXCEPT !.pc = "create", !.existing_db = 0]

\* Variant of enter_topic that gives up after the first topic.
enter_topic_once(rg, rows) ==
    IF Len(rg.topics) < Len(TopicSeq)
    THEN [rg EXCEPT !.pc = "done", !.existing_db = 0]
    ELSE [rg EXCEPT !.pc = "create", !.existing_db = 0]

\* The head of the loop body for the next topic: the query for an active row
\* of (store, topic), then the request of the probe or of the creation, on
\* which the invocation awaits; after the last topic the results are returned.
enter_topic(rg, rows) ==
    IF rg.topics = << >>
    THEN [rg EXCEPT !.pc = "done", !.existing_db = 0]
    ELSE LET found == active_webhooks(rows, rg.store, Head(rg.topics))
         IN  IF found # {}
             THEN [rg EXCEPT !.pc = "probe", !.existing_db = first(found)]
             ELSE [rg EXCEPT !.pc = "create", !.existing_db = 0]

\* results.append(...) for the current topic, which is then left.
with_result(rg, action, webhook_id) ==
    [rg EXCEPT !.results = Append(@, [topic |-> Head(rg.topics), action |-> action,
                                      webhook_id |-> webhook_id]),
               !.topics = Tail(@)]

\* The lowest free invocation.
free_reg == first({ r \in Regs : reg[r].pc = "idle" })

\* register_webhooks(store, db) is entered from origin.
enter_register(r, s, origin, rows) ==
    [IdleRegister EXCEPT !.origin = origin, !.store = s, !.topics = TopicSeq,
                         !.webhook_secret = generate_webhook_secret(r)]

\* The invocation goes on as rg on the table rows; when it has returned to
\* setup_connection or reconnect_store, the handler queues the initial sync.
register_goes_on(r, rg, rows) ==
    LET next == enter_topic(rg, rows)
        s    == rg.store
    IN  /\ reg' = [reg EXCEPT ![r] = next]
        /\ bulk' = IF /\ next.pc = "done"
                      /\ next.origin \in {"setup", "reconnect"}
                      /\ bulk[s].pc = "idle"
                   THEN [bulk EXCEPT ![s] = [IdleBulk EXCEPT !.pc = "fetch",
                                                             !.origin = "background",
                                                             !.per_page = WC_PRODUCTS_PER_PAGE]]
                   ELSE bulk

\* What the manager and the connection endpoints leave alone, the clock aside:
\* a specification says whether a call takes an instant of its own.
frame_manager == << products, last, remote, recon, job, inbox, hook, verify >>

\* POST /register.
register_webhooks(s) ==
    /\ s \in DOMAIN stores
    /\ get_merchant_from_header(s)
    /\ \E r \in Regs : reg[r].pc = "idle"
    /\ register_goes_on(free_reg, enter_register(free_reg, s, "register", webhooks), webhooks)
    /\ call' = [NoManagerCall EXCEPT !.op = "register", !.store = s]
    /\ UNCHANGED << stores, webhooks, wc_webhooks, frame_manager >>

\* client.get_webhook(existing_db.wc_webhook_id) answers: already_exists.
RegisterProbeOk(r) ==
    /\ reg[r].pc = "probe"
    /\ webhooks[reg[r].existing_db].wc_webhook_id \in wc_ids(reg[r].store)
    /\ register_goes_on(r, with_result(reg[r], "already_exists",
                                       Some(webhooks[reg[r].existing_db].wc_webhook_id)),
                        webhooks)
    /\ UNCHANGED << stores, webhooks, wc_webhooks, call, frame_manager >>

\* client.get_webhook raises (the shop has no such subscription, or the
\* request fails): the row is deactivated and the creation requested.
RegisterProbeFails(r) ==
    /\ reg[r].pc = "probe"
    /\ webhooks' = [webhooks EXCEPT ![reg[r].existing_db] = deactivated(@, clock)]
    /\ reg' = [reg EXCEPT ![r] = [@ EXCEPT !.pc = "create"]]
    /\ UNCHANGED << stores, bulk, wc_webhooks, call, frame_manager >>

\* client.create_webhook answers with the subscription the shop created; the
\* row is added and committed, unless its wc_webhook_id is already in the
\* table (the column is unique across stores), which fails the topic.
RegisterCreateOk(r) ==
    /\ reg[r].pc = "create"
    /\ LET s          == reg[r].store
           wc_webhook == [id |-> wc_webhooks[s].issued + 1, topic |-> Head(reg[r].topics),
                          secret |-> reg[r].webhook_secret]
           conflict   == \E i \in DOMAIN webhooks : webhooks[i].wc_webhook_id = wc_webhook.id
           rows       == IF conflict THEN webhooks
                         ELSE Append(webhooks,
                                     new_webhook(Len(webhooks) + 1, s, wc_webhook,
                                                 reg[r].webhook_secret, clock))
       IN  /\ wc_webhooks' = [wc_webhooks EXCEPT ![s] =
                                 [issued |-> wc_webhook.id,
                                  listed |-> @.listed \cup {wc_webhook}]]
           /\ webhooks' = rows
           /\ register_goes_on(r,
                               IF conflict THEN with_result(reg[r], "failed", None)
                               ELSE with_result(reg[r], "created", Some(wc_webhook.id)),
                               rows)
    /\ UNCHANGED << stores, call, frame_manager >>

\* client.create_webhook raises: the topic is reported failed.
RegisterCreateFails(r) ==
    /\ reg[r].pc = "create"
    /\ register_goes_on(r, with_result(reg[r], "failed", None), webhooks)
    /\ UNCHANGED << stores, webhooks, wc_webhooks, call, frame_manager >>

\* Variant of delete_webhook's query that looks the row up by id alone.
owned_webhooks_any_store(rows, webhook_id, store_id) ==
    { i \in DOMAIN rows : rows[i].id = webhook_id }

\* delete_webhook's query: the row with that id of that store.
owned_webhooks(rows, webhook_id, store_id) ==
    { i \in DOMAIN rows : rows[i].id = webhook_id /\ rows[i].store_id = store_id }

\* The shop of store s after it was asked to delete the subscriptions ids and
\* did so.
wc_webhooks_without(s, ids) ==
    [wc_webhooks EXCEPT ![s] = [@ EXCEPT !.listed = { w \in @ : w.id \notin ids }]]

\* DELETE /delete/{webhook_id}: the remote delete is attempted, its failure
\* only logged, and the row is marked inactive.
delete_webhook(s, webhook_id, remote_ok) ==
    /\ s \in DOMAIN stores
    /\ get_merchant_from_header(s)
    /\ LET found == owned_webhooks(webhooks, webhook_id, stores[s].id)
       IN  IF found = {}
           THEN /\ call' = [NoManagerCall EXCEPT !.op = "delete_webhook", !.store = s,
                                                 !.webhook_id = webhook_id,
                                                 !.ret = Some(FALSE)]
                /\ UNCHANGED << webhooks, wc_webhooks >>
           ELSE /\ wc_webhooks' = IF remote_ok
                                  THEN wc_webhooks_without(s,
                                           {webhooks[first(found)].wc_webhook_id})
                                  ELSE wc_webhooks
                /\ webhooks' = [webhooks EXCEPT ![first(found)] = deactivated(@, clock)]
                /\ call' = [NoManagerCall EXCEPT !.op = "delete_webhook", !.store = s,
                                                 !.webhook_id = webhook_id,
                                                 !.ret = Some(TRUE)]
    /\ UNCHANGED << stores, bulk, reg, frame_manager >>

\* Variant of the rows sync_webhooks leaves in which the rows the shop still
\* lists are deactivated as well.
synced_deactivating_all(rows, store_id, listed_ids, now) ==
    [i \in DOMAIN rows |->
        IF rows[i].store_id = store_id /\ rows[i].is_active = 1
        THEN deactivated(rows[i], now) ELSE rows[i]]

\* The rows sync_webhooks leaves: the store's active rows the listing lacks are
\* deactivated, the others get last_verified_at.
synced(rows, store_id, listed_ids, now) ==
    [i \in DOMAIN rows |->
        IF rows[i].store_id = store_id /\ rows[i].is_active = 1
        THEN IF rows[i].wc_webhook_id \notin listed_ids
             THEN deactivated(rows[i], now)
             ELSE [rows[i] EXCEPT !.last_verified_at = Some(now), !.updated_at = Some(now)]
        ELSE rows[i]]

\* POST /sync: client.get_webhooks(status='all') answers or raises.
sync_webhooks(s, listing_ok) ==
    /\ s \in DOMAIN stores
    /\ get_merchant_from_header(s)
    /\ IF listing_ok
       THEN /\ webhooks' = synced(webhooks, stores[s].id, wc_ids(s), clock)
            /\ call' = [NoManagerCall EXCEPT !.op = "sync_webhooks", !.store = s,
                                             !.ret = Some("synced"), !.seen = wc_ids(s)]
       ELSE /\ webhooks' = webhooks
            /\ call' = [NoManagerCall EXCEPT !.op = "sync_webhooks", !.store = s,
                                             !.ret = Some("error")]
    /\ UNCHANGED << stores, bulk, reg, wc_webhooks, frame_manager >>

\* delete_all_webhooks: every active row of the store is marked inactive.
delete_all_webhooks(rows, store_id, now) ==
    [i \in DOMAIN rows |->
        IF rows[i].store_id = store_id /\ rows[i].is_active = 1
        THEN deactivated(rows[i], now) ELSE rows[i]]

\* Variant of the store row disconnect_store leaves: the row stays active.
disconnected_still_active(row) == row

\* The store row disconnect_store leaves.
disconnected(row) == [row EXCEPT !.is_active = 0]

\* DELETE /disconnect: the store's subscriptions are deleted at the shop as far
\* as the shop answers, deactivated locally, and the store is set inactive.
disconnect_store(s, remote_ok) ==
    /\ s \in DOMAIN stores
    /\ LET ids == { webhooks[i].wc_webhook_id :
                      i \in { j \in DOMAIN webhooks : /\ webhooks[j].store_id = stores[s].id
                                                      /\ webhooks[j].is_active = 1 } }
       IN  wc_webhooks' = IF remote_ok THEN wc_webhooks_without(s, ids) ELSE wc_webhooks
    /\ webhooks' = delete_all_webhooks(webhooks, stores[s].id, clock)
    /\ stores' = [stores EXCEPT ![s] = disconnected(@)]
    /\ call' = [NoManagerCall EXCEPT !.op = "disconnect", !.store = s, !.ret = Some(TRUE)]
    /\ UNCHANGED << bulk, reg, frame_manager >>

\* The stores table with the row of store s added or replaced.
with_store(s, row) ==
    [t \in DOMAIN stores \cup {s} |-> IF t = s THEN row ELSE stores[t]]

\* POST /setup for a merchant and a shop that have no row: the credentials are
\* probed; connected, the row is added and register_webhooks entered.
setup_connection(s, connected) ==
    /\ s \notin DOMAIN stores
    /\ \E r \in Regs : reg[r].pc = "idle"
    /\ IF connected
       THEN /\ stores' = with_store(s, WooCommerceStore(s))
            /\ register_goes_on(free_reg, enter_register(free_reg, s, "setup", webhooks),
                                webhooks)
            /\ call' = [NoManagerCall EXCEPT !.op = "setup", !.store = s, !.ret = Some(TRUE)]
       ELSE /\ call' = [NoManagerCall EXCEPT !.op = "setup", !.store = s, !.ret = Some(FALSE)]
            /\ UNCHANGED << stores, reg, bulk >>
    /\ UNCHANGED << webhooks, wc_webhooks, frame_manager >>

\* POST /reconnect: the credentials are probed; connected, the row is set
\* active and verified and register_webhooks entered.
reconnect_store(s, connected) ==
    /\ s \in DOMAIN stores
    /\ \E r \in Regs : reg[r].pc = "idle"
    /\ IF connected
       THEN /\ stores' = [stores EXCEPT ![s] = [@ EXCEPT !.is_active = 1, !.is_verified = 1]]
            /\ register_goes_on(free_reg, enter_register(free_reg, s, "reconnect", webhooks),
                                webhooks)
            /\ call' = [NoManagerCall EXCEPT !.op = "reconnect", !.store = s,
                                             !.ret = Some(TRUE)]
       ELSE /\ call' = [NoManagerCall EXCEPT !.op = "reconnect", !.store = s,
                                             !.ret = Some(FALSE)]
            /\ UNCHANGED << stores, reg, bulk >>
    /\ UNCHANGED << webhooks, wc_webhooks, frame_manager >>

\* The merchant removes a subscription in the shop's admin.
RemoteDropsWebhook(s) ==
    /\ \E w \in wc_webhooks[s].listed : wc_webhooks' = wc_webhooks_without(s, {w.id})
    /\ call' = [NoManagerCall EXCEPT !.op = "remote_drop", !.store = s]
    /\ UNCHANGED << stores, webhooks, bulk, reg, frame_manager >>

\* The request the shop of store s sends for its subscription w about payload d.
delivery_of(s, w, d) ==
    [source    |-> Some(WooCommerceStore(s).store_url),
     signature |-> Some(b64encode(hmac_sha256(w.secret, json_dumps(d)))),
     topic     |-> Some(w.topic),
     resource  |-> Some(w.topic[1]),
     event     |-> Some(w.topic[2]),
     body      |-> json_dumps(d)]

\* The shop of store s fires one of its subscriptions and the request reaches
\* the handler mounted at the topic's path.
RemoteDelivers(s) ==
    /\ \E w \in wc_webhooks[s].listed :
          LET request == delivery_of(s, w, PayloadV1(1))
          IN  CASE w.topic = << "product", "created" >>  -> product_created_webhook(request)
                [] w.topic = << "product", "updated" >>  -> product_updated_webhook(request)
                [] w.topic = << "product", "deleted" >>  -> product_deleted_webhook(request)
                [] w.topic = << "product", "restored" >> -> product_restored_webhook(request)
    /\ call' = [NoManagerCall EXCEPT !.op = "webhook", !.store = s]
    /\ UNCHANGED << stores, webhooks, last, remote, recon, bulk, job, inbox, verify,
                    wc_webhooks, reg >>

(***************************************************************************)
(* The tables and shops the two specifications below start from.  A store  *)
(* is absent (never set up), unregistered (set up, no subscription),       *)
(* registered (four active rows, the shop lists them), lost (four active   *)
(* rows, the shop lists none) or disconnected (inactive store, inactive    *)
(* rows, the shop still lists them because its deletes failed).  The shop  *)
(* of store s issued the ids 4(s-1)+1..4s to them.                         *)
(***************************************************************************)
SubscriptionConditions == {"absent", "unregistered", "registered", "lost", "disconnected"}

\* The subscription the shop of store s holds for the k-th topic.
seed_wc_webhook(s, k) ==
    [id |-> Len(TopicSeq) * (s - 1) + k, topic |-> TopicSeq[k], secret |-> secret_of(s)]

RECURSIVE webhooks_seeded(_, _)
webhooks_seeded(condition, n) ==
    IF n = 0 THEN << >>
    ELSE LET smaller == webhooks_seeded(condition, n - 1)
         IN  IF condition[n] \in {"absent", "unregistered"} THEN smaller
             ELSE smaller \o
                  [k \in 1..Len(TopicSeq) |->
                      [new_webhook(Len(smaller) + k, n, seed_wc_webhook(n, k), secret_of(n), 0)
                          EXCEPT !.is_active = IF condition[n] = "disconnected" THEN 0 ELSE 1]]

stores_seeded(condition) ==
    [s \in { t \in Stores : condition[t] # "absent" } |->
        [WooCommerceStore(s) EXCEPT !.is_active = IF condition[s] = "disconnected" THEN 0 ELSE 1]]

wc_webhooks_seeded(condition) ==
    [s \in Stores |->
        [issued |-> IF condition[s] \in {"absent", "unregistered"} THEN 0
                    ELSE Len(TopicSeq) * s,
         listed |-> IF condition[s] \in {"registered", "disconnected"}
                    THEN { seed_wc_webhook(s, k) : k \in 1..Len(TopicSeq) } ELSE {}]]

InitSeeded(conditions) ==
    /\ \E condition \in [Stores -> conditions] :
          /\ stores = stores_seeded(condition)
          /\ webhooks = webhooks_seeded(condition, NumStores)
          /\ wc_webhooks = wc_webhooks_seeded(condition)
    /\ reg = [r \in Regs |-> IdleRegister]
    /\ call = NoManagerCall
    /\ products = << >>
    /\ remote = [s \in Stores |-> {}]
    /\ InitNoTasks
    /\ InitNoHooks
    /\ InitNoVerify
    /\ clock = 0
    /\ last = NoCall

(***************************************************************************)
(* SpecRegistration: POST /register called up to MaxRegs times, for any    *)
(* stores, the invocations interleaved at their awaits.                    *)
(***************************************************************************)
InitRegistration == InitSeeded({"unregistered", "registered", "lost"})

NextRegistration ==
    \/ \E s \in Stores : register_webhooks(s) /\ UNCHANGED clock
    \/ \E r \in Regs : RegisterProbeOk(r) /\ UNCHANGED clock
    \/ \E r \in Regs : RegisterProbeFails(r) /\ UNCHANGED clock
    \/ \E r \in Regs : RegisterCreateOk(r) /\ UNCHANGED clock
    \/ \E r \in Regs : RegisterCreateFails(r) /\ UNCHANGED clock

SpecRegistration == InitRegistration /\ [][NextRegistration]_vars

(***************************************************************************)
(* SpecManager: the connection and webhook-manager endpoints called one    *)
(* after the other in any order, the shop dropping subscriptions and       *)
(* delivering webhooks in between, each at its own instant.  The shop      *)
(* answers the requests of register_webhooks; the failures of its          *)
(* requests are those of SpecRegistration.                                 *)
(***************************************************************************)
InitManager == InitSeeded(SubscriptionConditions)

\* The shop of the invocation's store does not list the subscription probed.
probe_finds_nothing(r) ==
    /\ reg[r].pc = "probe"
    /\ webhooks[reg[r].existing_db].wc_webhook_id \notin wc_ids(reg[r].store)

\* No register_webhooks invocation is between its entry and its return.
no_register_running == \A r \in Regs : reg[r].pc \in {"idle", "done"}

\* An endpoint is called, or the shop acts, while no invocation is running, and
\* at an instant of its own.
at_its_instant == no_register_running /\ Advance

NextManager ==
    \/ \E s \in Stores, connected \in BOOLEAN : at_its_instant /\ setup_connection(s, connected)
    \/ \E s \in Stores, connected \in BOOLEAN : at_its_instant /\ reconnect_store(s, connected)
    \/ \E s \in Stores, remote_ok \in BOOLEAN : at_its_instant /\ disconnect_store(s, remote_ok)
    \/ \E s \in Stores, webhook_id \in 1..(Len(webhooks) + 1), remote_ok \in BOOLEAN :
          at_its_instant /\ delete_webhook(s, webhook_id, remote_ok)
    \/ \E s \in Stores, listing_ok \in BOOLEAN : at_its_instant /\ sync_webhooks(s, listing_ok)
    \/ \E s \in Stores : at_its_instant /\ RemoteDropsWebhook(s)
    \/ \E s \in Stores : at_its_instant /\ RemoteDelivers(s)
    \/ \E r \in Regs : RegisterProbeOk(r) /\ UNCHANGED clock
    \/ \E r \in Regs : probe_finds_nothing(r) /\ RegisterProbeFails(r) /\ UNCHANGED clock
    \/ \E r \in Regs : RegisterCreateOk(r) /\ UNCHANGED clock

SpecManager == InitManager /\ [][NextManager]_vars

(***************************************************************************)
(* Claims about register_webhooks, under SpecRegistration.                 *)
(***************************************************************************)
\* C23: at every moment a (store, topic) has at most one active subscription
\* row, two register_webhooks invocations for one store running at once
\* included.
C23_AtMostOneActivePerStoreTopic ==
    \A s \in Stores, k \in DOMAIN TopicSeq :
        Cardinality(active_webhooks(webhooks, s, TopicSeq[k])) <= 1

\* The actions register_webhooks reports.
RegisterActions == {"already_exists", "created", "failed"}

reg_steps(r) == reg'[r] # reg[r]

\* The topic invocation r is at, and the result it has just reported.
topic_of(r) == Head(reg[r].topics)
reported(r) == reg'[r].results[Len(reg'[r].results)]

is_call(op) == clock' # clock /\ call'.op = op

\* The columns of a subscription row that identify it.
webhook_identity == {"id", "store_id", "topic", "wc_webhook_id", "secret"}

\* C26: delete_webhook for a row of the calling store marks that row inactive
\* and returns true whether or not the shop deleted the subscription; for an id
\* that is no row of the store it returns false and changes nothing; no row
\* is ever removed.
C26_DeleteWebhookOwnOnly ==
    [][is_call("delete_webhook") =>
          LET s   == call'.store
              own == { i \in DOMAIN webhooks : /\ webhooks[i].id = call'.webhook_id
                                               /\ webhooks[i].store_id = stores[s].id }
          IN  /\ DOMAIN webhooks' = DOMAIN webhooks
              /\ stores' = stores
              /\ \A i \in DOMAIN webhooks \ own : webhooks'[i] = webhooks[i]
              /\ \A t \in Stores \ {s} : wc_webhooks'[t] = wc_webhooks[t]
              /\ IF own = {}
                 THEN /\ call'.ret = Some(FALSE)
                      /\ webhooks' = webhooks
                      /\ wc_webhooks' = wc_webhooks
                 ELSE /\ call'.ret = Some(TRUE)
                      /\ \A i \in own :
                            /\ webhooks'[i].is_active = 0
                            /\ \A k \in webhook_identity : webhooks'[i][k] = webhooks[i][k]
                            /\ wc_webhooks'[s].listed \in
                                  { wc_webhooks[s].listed,
                                    { w \in wc_webhooks[s].listed :
                                        w.id # webhooks[i].wc_webhook_id } }
      ]_vars

\* C26 witness: delete_webhook returned true for a row of the store whose
\* subscription the shop still lists (the remote delete failed), the row is
\* inactive, and the table holds a row of another store.
C26_Witness ==
    /\ call.op = "delete_webhook"
    /\ call.ret = Some(TRUE)
    /\ \E i \in DOMAIN webhooks :
          /\ webhooks[i].id = call.webhook_id
          /\ webhooks[i].store_id = call.store
          /\ webhooks[i].is_active = 0
          /\ webhooks[i].wc_webhook_id \in wc_ids(call.store)
    /\ \E i \in DOMAIN webhooks : webhooks[i].store_id # call.store

\* C27: sync_webhooks, when the shop lists its subscriptions, marks inactive
\* exactly the active rows of the store whose remote id the listing lacks,
\* leaves the listed ones active, touches no other row, and adds neither a row
\* nor a subscription; when the listing fails it reports an error and the
\* table is unchanged.
C27_SyncDeactivatesMissingOnly ==
    [][is_call("sync_webhooks") =>
          LET s == call'.store
          IN  /\ DOMAIN webhooks' = DOMAIN webhooks
              /\ wc_webhooks' = wc_webhooks
              /\ stores' = stores
              /\ IF call'.ret = Some("error")
                 THEN webhooks' = webhooks
                 ELSE /\ call'.ret = Some("synced")
                      /\ \A i \in DOMAIN webhooks :
                            IF webhooks[i].store_id = stores[s].id /\ webhooks[i].is_active = 1
                            THEN /\ webhooks'[i].is_active =
                                       IF webhooks[i].wc_webhook_id \in call'.seen
                                       THEN 1 ELSE 0
                                 /\ \A k \in webhook_identity :
                                       webhooks'[i][k] = webhooks[i][k]
                            ELSE webhooks'[i] = webhooks[i]
      ]_vars

\* C27 witness: a sync found one subscription of the store missing at the shop
\* and another one listed; the first row is inactive, the second active.
C27_Witness ==
    /\ call.op = "sync_webhooks"
    /\ call.ret = Some("synced")
    /\ \E i, j \in DOMAIN webhooks :
          /\ webhooks[i].store_id = call.store
          /\ webhooks[j].store_id = call.store
          /\ webhooks[i].wc_webhook_id \notin call.seen
          /\ webhooks[i].is_active = 0
          /\ webhooks[i].updated_at # None
          /\ webhooks[j].wc_webhook_id \in call.seen
          /\ webhooks[j].is_active = 1

InitLifecycle ==
    /\ LET condition == [s \in Stores |-> "registered"]
       IN  /\ stores = stores_seeded(condition)
           /\ webhooks = webhooks_seeded(condition, NumStores)
           /\ wc_webhooks = wc_webhooks_seeded(condition)
    /\ reg = [r \in Regs |-> IdleRegister]
    /\ call = NoManagerCall
    /\ products = << >>
    /\ remote = [s \in Stores |-> {PayloadV1(NumProducts)}]
    /\ InitNoTasks
    /\ InitNoHooks
    /\ InitNoVerify
    /\ clock = 0
    /\ last = NoCall

\* No reconcile and no bulk sync is between its entry and its return.
quiet == \A t \in Stores : recon[t].pc \in {"idle", "done"} /\ bulk[t].pc \in {"idle", "done"}

NextLifecycle ==
    \/ \E s \in Stores : nothing_started /\ ReconcileStart(s)
    \/ \E s \in Stores : ReconcileRequest(s)
    \/ \E s \in Stores : ReconcileFetchOk(s)
    \/ \E s \in Stores : ReconcileFetchFails(s)
    \/ \E s \in Stores : ReconcileItem(s)
    \/ \E s \in Stores : ReconcileItemFails(s)
    \/ \E s \in Stores : ReconcileQueryLocal(s)
    \/ \E s \in Stores : ReconcileDeleteItem(s)
    \/ \E s \in Stores : ReconcileReturn(s)
    \/ \E s \in Stores, background \in BOOLEAN : nothing_started /\ trigger_sync(s, background)
    \/ \E s \in Stores : nothing_started /\ force_resync(s)
    \/ \E s \in Stores : BulkRequest(s)
    \/ \E s \in Stores : BulkFetchFails(s)
    \/ \E s \in Stores : BulkFetchOk(s)
    \/ \E s \in Stores : BulkItem(s)
    \/ \E s \in Stores : BulkItemFails(s)
    \/ \E s \in Stores : BulkFinish(s)
    \/ quiet /\ SoftDeleteCall
    \/ quiet /\ RestoreCall
    \/ \E s \in Stores : quiet /\ Advance /\ RemoteDelivers(s)
    \/ \E s \in Stores, remote_ok \in BOOLEAN : quiet /\ Advance /\ disconnect_store(s, remote_ok)

SpecLifecycle == InitLifecycle /\ [][NextLifecycle]_vars

\* C21: no step removes a product row or changes the remote id or the tenant a
\* row belongs to, so the remote ids that have a row only grow.
C21_ProductsNeverHardDeleted ==
    [][/\ Len(products') >= Len(products)
       /\ \A i \in DOMAIN products :
             /\ products'[i].wc_product_id = products[i].wc_product_id
             /\ products'[i].store_id = products[i].store_id
             /\ products'[i].merchant_id = products[i].merchant_id
       /\ { products[i].wc_product_id : i \in DOMAIN products }
             \subseteq { products'[i].wc_product_id : i \in DOMAIN products' }
      ]_vars

\* C21 witness: a store whose reconcile soft-deleted a product was then
\* disconnected, and the soft-deleted row is still in the table.
C21_Witness ==
    /\ call.op = "disconnect"
    /\ stores[call.store].is_active = 0
    /\ recon[call.store].pc = "done"
    /\ recon[call.store].result.products_deleted > 0
    /\ \E i \in DOMAIN products :
          /\ products[i].store_id = call.store
          /\ products[i].wc_product_id \in recon[call.store].soft_deleted
          /\ products[i].is_deleted = 1

(***************************************************************************)
(* Claims about the inbound handlers, under SpecWebhook.                   *)
(***************************************************************************)
\* The body is the JSON encoding of some value.
valid_json(body) == Len(body) = 2 /\ body[1] = "json"

\* C32: a request whose body is not valid JSON writes no product; it is
\* answered 400 when its signature is valid, and not 400 when it is not (the
\* body is parsed only after the signature was verified).
C32_MalformedBodyIsClientError ==
    (hook.path # "none" /\ ~valid_json(hook.body)) =>
        /\ hook.action = "none"
        /\ hook.authentic => hook.status_code = 400
        /\ ~hook.authentic => hook.status_code # 400

\* The topics whose handlers upsert.
UpsertTopics ==
    { << "product", "created" >>, << "product", "updated" >>, << "product", "restored" >> }

\* C38: a request that was verified under the subscription of topic T causes
\* a soft delete only if T is product.deleted and an upsert only if T is
\* product.created, product.updated or product.restored, whatever path it was
\* posted to.
C38_WriteMatchesVerifiedTopic ==
    hook.status_code = 200 =>
        /\ hook.action = "deleted" => hook.topic = << "product", "deleted" >>
        /\ hook.action \in {"created", "updated", "restored"} => hook.topic \in UpsertTopics


(***************************************************************************)
(* SpecRace: a bulk sync of one store, interleaved with the merchant       *)
(* deleting products the sync has already fetched and with the deliveries  *)
(* of the shop's product.deleted webhooks.                                 *)
(***************************************************************************)
InitRace ==
    /\ InitStores
    /\ webhooks = all_registered(NumStores)
    /\ products \in SeedTables(NumProducts)
    /\ \E c \in Catalogs : remote = [s \in Stores |-> c]
    /\ InitNoTasks
    /\ InitNoSubscriptions
    /\ InitNoHooks
    /\ InitNoVerify
    /\ clock = 0
    /\ last = NoCall

\* The ids of the products of the pages the bulk sync of store s has received.
fetched(s) ==
    bulk[s].upserted \cup bulk[s].failed
        \cup { bulk[s].items[i].id : i \in DOMAIN bulk[s].items }
        \cup IF bulk[s].pc = "await"
             THEN { bulk[s].response.products[i].id : i \in DOMAIN bulk[s].response.products }
             ELSE {}

\* While the bulk sync of store s runs and after it received the page holding
\* product p, the merchant deletes p in the shop, and the shop sends the
\* product.deleted webhook.
RemoteDelete(s, p) ==
    /\ bulk[s].pc \notin {"idle", "done"}
    /\ p \in fetched(s)
    /\ \E d \in remote[s] :
         /\ d.id = p
         /\ remote' = [remote EXCEPT ![s] = @ \ {d}]
         /\ inbox' = inbox \cup {delivery(s, << "product", "deleted" >>, d)}
    /\ UNCHANGED << stores, webhooks, products, clock, last, recon, bulk, job, hook, verify,
                    frame_subs >>

\* A delivery reaches POST /product/deleted.
DeliverDeleted ==
    \E request \in inbox :
        /\ ~loop_busy
        /\ product_deleted_webhook(request)
        /\ inbox' = inbox \ {request}
        /\ UNCHANGED << frame_hook, recon >>

NextRace ==
    \E s \in Stores :
        \/ nothing_started /\ \E background \in BOOLEAN : trigger_sync(s, background)
        \/ nothing_started /\ force_resync(s)
        \/ BulkRequest(s)
        \/ BulkFetchFails(s)
        \/ BulkFetchOk(s)
        \/ BulkItem(s)
        \/ BulkItemFails(s)
        \/ BulkFinish(s)
        \/ \E p \in ProductIds : RemoteDelete(s, p)
        \/ DeliverDeleted

SpecRace == InitRace /\ [][NextRace]_vars

\* The bulk sync of store s has returned and every webhook was answered.
both_finished(s) == bulk[s].pc = "done" /\ inbox = {}

\* C31: when the verified product.deleted webhook of a product the running bulk
\* sync had already fetched was processed and found the tenant's row, the row is
\* soft-deleted once the sync has returned and no delivery is outstanding.
C31_DeleteWinsOverRunningSync ==
    \A s \in Stores :
        ( /\ both_finished(s)
          /\ hook.path = "/product/deleted"
          /\ hook.status_code = 200
          /\ hook.action = "deleted" ) =>
            LET p == json_loads(hook.body)[1].id
            IN  \A i \in DOMAIN products :
                    ( /\ products[i].wc_product_id = p
                      /\ products[i].merchant_id = stores[s].merchant_id ) =>
                        products[i].is_deleted = 1


(***************************************************************************)
(* The tenant linkage of a row and restore_product, under Spec.            *)
(***************************************************************************)
\* C39: no call of the engine, whichever store issues it, changes the store_id
\* or the merchant_id of a row that exists: an upsert that hits the row, a soft
\* delete and a restore all leave the linkage the row got at its insert.
C39_TenantLinkageNeverChanges ==
    [][/\ DOMAIN products \subseteq DOMAIN products'
       /\ \A i \in DOMAIN products :
             /\ products'[i].wc_product_id = products[i].wc_product_id
             /\ products'[i].store_id = products[i].store_id
             /\ products'[i].merchant_id = products[i].merchant_id
      ]_vars

\* C39 witness: a store upserted a remote id whose row belongs to another
\* store, and the row was overwritten but still belongs to its first owner.
C39_Witness ==
    /\ last.op = "upsert"
    /\ last.pre # None
    /\ last.pre[1].store_id # last.store
    /\ row_of(products, last.id)[1].store_id = last.pre[1].store_id
    /\ row_of(products, last.id)[1].merchant_id = last.pre[1].merchant_id
    /\ row_of(products, last.id)[1].raw_data # last.pre[1].raw_data


\* The step is a call of restore_product.
is_restore == last'.op = "restore"

\* The columns a restore may write besides the flag and the deleted timestamp:
\* the two onupdate columns.
onupdate_columns == {"synced_at", "updated_at"}

\* The previous call soft-deleted the active row of the tenant that this call
\* restores.
restores_last_soft_delete ==
    /\ last.op = "soft_delete"
    /\ last.ret = TRUE
    /\ last.id = last'.id
    /\ last.store = last'.store
    /\ last.pre[1].is_deleted = 0

\* What restore_product does to the status and to the rows of other tenants,
\* and what it returns.
restore_effect(written) ==
    IF tenant_rows_of_call # {}
    THEN /\ last'.ret = TRUE
         /\ DOMAIN products' = DOMAIN products
         /\ \A i \in DOMAIN products :
               IF i \in tenant_rows_of_call
               THEN /\ products'[i].is_deleted = 0
                    /\ products'[i].deleted_at = None
                    /\ DOMAIN products'[i] = DOMAIN products[i]
                    /\ \A k \in DOMAIN products[i] \ written :
                          products'[i][k] = products[i][k]
                    /\ restores_last_soft_delete =>
                          \A k \in DOMAIN products[i] \ (written \cup {"status"}) :
                              products'[i][k] = last.pre[1][k]
               ELSE products'[i] = products[i]
    ELSE /\ last'.ret = FALSE
         /\ products' = products

\* C35 as stated: restore_product clears is_deleted and deleted_at of the
\* tenant's row and changes no other field, returns false and changes nothing
\* without such a row, and after a soft delete brings the row back to its state
\* before the delete in every field except status.
C35_RestoreChangesNoOtherField ==
    [][is_restore => restore_effect({"is_deleted", "deleted_at"})]_vars

\* C35: restore_product clears is_deleted and deleted_at of the tenant's row
\* and, the row's synced_at and updated_at apart, changes no other field
\* (status and tenant linkage stay), returns false and changes nothing without
\* such a row, and after a soft delete brings the row back to its state before
\* the delete in every field except status, synced_at and updated_at.
C35_RestoreClearsFlagAndStamps ==
    [][is_restore =>
          restore_effect({"is_deleted", "deleted_at"} \cup onupdate_columns)]_vars

\* C35 witness: the row soft-deleted by the previous call was restored; it is
\* active again and still has the status 'deleted'.
C35_Witness ==
    /\ last.op = "restore"
    /\ last.ret = TRUE
    /\ last.pre # None
    /\ last.pre[1].is_deleted = 1
    /\ last.pre[1].embedding # None
    /\ row_of(products, last.id)[1].is_deleted = 0
    /\ row_of(products, last.id)[1].deleted_at = None
    /\ row_of(products, last.id)[1].status = Some("deleted")
    /\ row_of(products, last.id)[1].embedding = last.pre[1].embedding


(***************************************************************************)
(* Claims about the bulk sync, under SpecAlone and SpecPaging.             *)
(***************************************************************************)
\* The step belongs to the bulk sync of store s.
bulk_runs(s) == bulk[s].pc # "idle" \/ bulk'[s].pc # "idle"

\* C40: no step of a bulk sync, however it was started, takes a row from
\* is_deleted = 0 to is_deleted = 1 or removes a row, and a row whose remote id
\* the shop no longer lists is left exactly as it was.
C40_BulkSyncNeverSoftDeletes ==
    [][\A s \in Stores :
          bulk_runs(s) =>
              /\ DOMAIN products \subseteq DOMAIN products'
              /\ \A i \in DOMAIN products :
                    /\ products[i].is_deleted = 0 => products'[i].is_deleted = 0
                    /\ products[i].wc_product_id \notin ids_of(remote[s])
                          => products'[i] = products[i]
      ]_vars

\* C40 witness: a bulk sync that upserted something has returned completed, and
\* an active row of its tenant holds a remote id the shop does not list.
C40_Witness ==
    \E s \in Stores :
        /\ bulk[s].pc = "done"
        /\ bulk[s].total_stats.status = "completed"
        /\ bulk[s].upserted # {}
        /\ \E i \in DOMAIN products :
              /\ products[i].merchant_id = stores[s].merchant_id
              /\ products[i].is_deleted = 0
              /\ products[i].wc_product_id \notin ids_of(remote[s])


\* The number of products on the first n pages of a catalog of the given size.
on_pages(n, size, per_page) == Min(n * per_page, size)

\* synced_count is the sum of created_count and updated_count.
counts_add_up(stats) == stats.synced_count = stats.created_count + stats.updated_count

\* The step is one iteration of sync_products_batch for store s that upserted
\* the product at the head of the page.
upserts_head(s) ==
    /\ bulk[s].pc = "items"
    /\ bulk'[s].upserted # bulk[s].upserted

\* C37: in the result of a bulk sync and in the counters of every batch,
\* synced_count = created_count + updated_count; between two pages and at the
\* return, synced_count + failed_count is the number of products on the pages
\* processed; and an upserted product is counted as created when no row held
\* its remote id at the time of the check, whoever owns the row and deleted or
\* not, and as updated otherwise.
C37_CountersAddUp ==
    /\ [](\A s \in Stores :
            /\ counts_add_up(bulk[s].total_stats)
            /\ counts_add_up(bulk[s].batch)
            /\ bulk[s].pc \in {"fetch", "finish", "done"} =>
                  LET stats == bulk[s].total_stats
                  IN  /\ stats.synced_count + stats.failed_count
                            = Cardinality(bulk[s].upserted) + Cardinality(bulk[s].failed)
                      /\ stats.synced_count + stats.failed_count
                            = on_pages(stats.pages_fetched, Cardinality(remote[s]),
                                       Min(WC_PRODUCTS_PER_PAGE, MaxPerPage)))
    /\ [][\A s \in Stores :
            upserts_head(s) =>
                LET existed == rows_with_id(products, Head(bulk[s].items).id) # {}
                    created == bulk'[s].batch.created_count - bulk[s].batch.created_count
                    updated == bulk'[s].batch.updated_count - bulk[s].batch.updated_count
                IN  /\ created = IF existed THEN 0 ELSE 1
                    /\ updated = IF existed THEN 1 ELSE 0]_vars

\* C37 witness: a returned bulk sync processed two pages, created one product
\* and counted as updated one whose row belonged to another tenant and was
\* soft-deleted.
C37_Witness ==
    \E s \in Stores :
        /\ bulk[s].pc = "done"
        /\ bulk[s].total_stats.pages_fetched = 2
        /\ bulk[s].total_stats.created_count = 1
        /\ bulk[s].total_stats.updated_count = 1
        /\ \E i \in DOMAIN products :
              /\ products[i].merchant_id # stores[s].merchant_id
              /\ products[i].wc_product_id \in bulk[s].upserted


(***************************************************************************)
(* SpecPaging: one bulk sync of a store, under every value the deployment  *)
(* can configure for WC_PRODUCTS_PER_PAGE, the values above the ceiling of *)
(* the remote API included.                                                *)
(***************************************************************************)
\* The page sizes a deployment can configure, one above the ceiling included.
PageSizes == 1..(MaxPerPage + 1)

\* POST /trigger in a deployment configured with WC_PRODUCTS_PER_PAGE =
\* configured.
trigger_sync_configured(s, configured) ==
    /\ get_merchant_from_header(s)
    /\ ~loop_busy
    /\ enter_bulk(s, "trigger", configured)
    /\ UNCHANGED << stores, products, frame_bulk >>

NextPaging ==
    \E s \in Stores :
        \/ nothing_started /\ \E configured \in PageSizes : trigger_sync_configured(s, configured)
        \/ BulkRequest(s)
        \/ BulkFetchFails(s)
        \/ BulkFetchOk(s)
        \/ BulkItem(s)
        \/ BulkItemFails(s)
        \/ BulkFinish(s)

SpecPaging == InitReconcile /\ [][NextPaging]_vars

\* C36: a bulk sync that has returned status completed with failed_count = 0
\* has upserted every product the shop lists and, when the shop reported more
\* than one page, has fetched every page, whatever page size is configured.
C36_CompletedSyncCoversCatalog ==
    \A s \in Stores :
        ( /\ bulk[s].pc = "done"
          /\ bulk[s].total_stats.status = "completed"
          /\ bulk[s].total_stats.failed_count = 0 ) =>
            /\ ids_of(remote[s]) \subseteq bulk[s].upserted
            /\ bulk[s].total_pages > 1 =>
                  bulk[s].total_stats.pages_fetched = bulk[s].total_pages


(***************************************************************************)
(* SpecSweepFair: SpecSweep with the job scheduled until it returns.  The  *)
(* job is a coroutine of the scheduler's event loop, every request to a    *)
(* shop answers or raises (the client has a timeout), and every loop of    *)
(* the job is over a finite list.                                          *)
(***************************************************************************)
SpecSweepFair == SpecSweep /\ WF_vars(NextSweep)

\* Store s is active and verified.
selected(s) == stores[s].is_active = 1 /\ stores[s].is_verified = 1

\* C33: a run of the reconciliation job lists exactly the stores that are
\* active and verified when it starts; it starts a sync for no other store; when
\* it has completed, the sync of every listed store has returned, whether with
\* status completed or, after an exception, failed; and every run that started
\* completes.
C33_JobProcessesEverySelectedStore ==
    /\ [][(job.pc = "idle" /\ job'.pc # "idle") =>
             { job'.stores[i] : i \in DOMAIN job'.stores } = { s \in Stores : selected(s) }]_vars
    /\ [](\A s \in Stores :
            /\ bulk[s].pc # "idle" => selected(s) /\ bulk[s].origin = "job"
            /\ job.pc = "done" => (selected(s) <=> bulk[s].pc = "done"))
    /\ (job.pc = "loop") ~> (job.pc = "done")

\* C33 witness: the job completed; the sync of the first store failed with an
\* exception and the sync of the second store, run after it, completed.
C33_Witness ==
    /\ job.pc = "done"
    /\ NumStores >= 2
    /\ bulk[1].pc = "done"
    /\ bulk[1].total_stats.status = "failed"
    /\ bulk[2].pc = "done"
    /\ bulk[2].total_stats.status = "completed"
    /\ bulk[2].upserted # {}


(***************************************************************************)
(* The secrets of the subscriptions, under SpecRegistration.               *)
(***************************************************************************)
\* The secrets a shop can sign with: those seeded and those of the invocations.
SigningSecrets == { secret_of(s) : s \in Stores } \cup { generate_webhook_secret(r) : r \in Regs }

\* The rows invocation r reported as created.
created_by(r) ==
    { i \in DOMAIN webhooks :
        \E k \in DOMAIN reg[r].results :
            /\ reg[r].results[k].action = "created"
            /\ webhooks[i].store_id = reg[r].store
            /\ Some(webhooks[i].wc_webhook_id) = reg[r].results[k].webhook_id }

\* The request a shop would send for store s and topic, signed with secret.
signed_with(s, topic, secret) ==
    delivery_of(s, [topic |-> topic, secret |-> secret], PayloadV1(1))

\* C34: every row an invocation of register_webhooks created holds the secret
\* of that invocation, which no row held when the invocation began and no other
\* invocation uses; no step changes the secret of an existing row, so a
\* subscription found and verified keeps its secret; and a request for a topic
\* of a store is accepted only when it is signed with the secret stored on an
\* active subscription row of that store and topic.
C34_SecretsOfSubscriptions ==
    /\ [](\A r \in Regs :
            /\ \A i \in created_by(r) : webhooks[i].secret = Some(reg[r].webhook_secret)
            /\ \A q \in Regs \ {r} :
                  reg[r].pc # "idle" /\ reg[q].pc # "idle"
                     => reg[r].webhook_secret # reg[q].webhook_secret)
    /\ [](\A s \in DOMAIN stores, k \in DOMAIN TopicSeq, secret \in SigningSecrets :
            verify_wc_webhook(signed_with(s, TopicSeq[k], secret)).status_code = 200
               => \E i \in active_webhooks(webhooks, s, TopicSeq[k]) :
                     webhooks[i].secret = Some(secret))
    /\ [][/\ DOMAIN webhooks \subseteq DOMAIN webhooks'
          /\ \A i \in DOMAIN webhooks : webhooks'[i].secret = webhooks[i].secret
          /\ \A r \in Regs :
                (reg[r].pc = "idle" /\ reg'[r].pc # "idle") =>
                    \A i \in DOMAIN webhooks : webhooks[i].secret # Some(reg'[r].webhook_secret)
         ]_vars

\* C34 witness: an invocation has returned that found one topic's subscription
\* verified and created another's; the row it found holds another secret than
\* the invocation's, and a request signed with the invocation's secret is
\* accepted for the topic it created.
C34_Witness ==
    \E r \in Regs :
        /\ reg[r].pc = "done"
        /\ \E k \in DOMAIN reg[r].results : reg[r].results[k].action = "already_exists"
        /\ \E i \in created_by(r) :
              /\ webhooks[i].is_active = 1
              /\ verify_wc_webhook(signed_with(reg[r].store, webhooks[i].topic,
                                               reg[r].webhook_secret)).status_code = 200
        /\ \E i \in DOMAIN webhooks :
              /\ webhooks[i].store_id = reg[r].store
              /\ webhooks[i].is_active = 1
              /\ webhooks[i].secret # Some(reg[r].webhook_secret)

============================================================================
